---- MODULE Spec2Model ----
(***************************************************************************)
(* A model of tuipaz-textarea: the line buffer, the link store, the edit   *)
(* history (src/src/history.rs) and the buffer-mutating API of TextArea    *)
(* (src/src/textarea.rs).                                                  *)
(*                                                                         *)
(* Conventions.  Rows, columns and byte offsets are 0-based as in the      *)
(* source; TLA+ sequences are 1-based, so row r is lines[r + 1].  A line   *)
(* is a sequence of characters; a character is a one-character string and  *)
(* ByteLen gives the length of its UTF-8 encoding, so that byte offsets    *)
(* (String::len, Pos.offset) and character columns differ on multi-byte    *)
(* text exactly as they do in the source.  Option::None of a pair or of a  *)
(* vector is the empty sequence.  A Rust panic (index out of bounds, a     *)
(* byte offset off a character boundary, expect() on None, checked usize   *)
(* underflow) sets the flag "panicked" and leaves the rest of the value as *)
(* it was when the panic was raised.                                       *)
(***************************************************************************)
EXTENDS Integers, Sequences, FiniteSets, TLC

(***************************************************************************)
(* Bounds of the model                                                     *)
(***************************************************************************)
MaxOps == 2
MaxLineLen == 4
MaxLines == 3
MaxLinks == 2
MaxCap == 2
MaxLineOps == 4
MaxDelete == 2
MaxCopyOps == 3
MaxShiftRow == 2
MaxShiftCol == 2

(***************************************************************************)
(* Program constants                                                       *)
(***************************************************************************)
DefaultMaxCol == 140
DefaultMaxHistories == 50

(***************************************************************************)
(* Characters and strings                                                  *)
(***************************************************************************)
\* "e2" stands for a character whose UTF-8 encoding has two bytes (e.g. U+00E9)
WideChar == "e2"

ByteLen(c) == IF c = WideChar THEN 2 ELSE 1

RECURSIVE StrLen(_)
StrLen(s) == IF s = <<>> THEN 0 ELSE ByteLen(Head(s)) + StrLen(Tail(s))

CharCount(s) == Len(s)

Prefix(s, k) == SubSeq(s, 1, k)

Suffix(s, k) == SubSeq(s, k + 1, Len(s))

\* line.char_indices().nth(col).map(|(i, _)| i).unwrap_or(line.len())
OffsetOfCol(line, col) == IF col < Len(line) THEN StrLen(Prefix(line, col)) ELSE StrLen(line)

\* is the byte offset off a character boundary of line (str::is_char_boundary)
IsBoundary(line, off) == \E k \in 0..Len(line) : StrLen(Prefix(line, k)) = off

\* the number of characters in front of a byte offset that is a character boundary
CharsBefore(line, off) == CHOOSE k \in 0..Len(line) : StrLen(Prefix(line, k)) = off

SatSub(a, b) == IF a >= b THEN a - b ELSE 0

Min(a, b) == IF a <= b THEN a ELSE b

None == <<>>

(***************************************************************************)
(* Pos (util.rs) and Link                                                  *)
(***************************************************************************)
Pos(row, col, offset) == [row |-> row, col |-> col, offset |-> offset]

NewLink(id, row, start_col, end_col) ==
    [id |-> id, row |-> row, start_col |-> start_col, end_col |-> end_col,
     edited |-> FALSE, deleted |-> FALSE]

toggle_edited(l) == [l EXCEPT !.edited = ~l.edited]

toggle_deleted(l) == [l EXCEPT !.deleted = ~l.deleted]

(***************************************************************************)
(* EditKind (history.rs).  A kind is [tag, text, ids]: text is the payload *)
(* as a sequence of lines (one line of one character for the Char          *)
(* variants, one line for Str and Line, the chunk for Chunk, none for the  *)
(* Newline variants) and ids the set of link ids it carries (None and an   *)
(* empty vector both are {}).                                              *)
(***************************************************************************)
Kind(tag, text, ids) == [tag |-> tag, text |-> text, ids |-> ids]

ApplyResult(lines, links, panicked) == [lines |-> lines, links |-> links, panicked |-> panicked]

\* for id in l { links.get_mut(id).expect(..); link.toggle_edited(); link.toggle_deleted() }
TouchInsertToggle(links, ids) ==
    [id \in DOMAIN links |->
        IF id \in ids THEN toggle_deleted(toggle_edited(links[id])) ELSE links[id]]

\* for id in l { link.toggle_edited(); link.deleted = false }
TouchInsertClear(links, ids) ==
    [id \in DOMAIN links |->
        IF id \in ids THEN [toggle_edited(links[id]) EXCEPT !.deleted = FALSE] ELSE links[id]]

\* for id in l { link.toggle_deleted() }
TouchDelete(links, ids) ==
    [id \in DOMAIN links |-> IF id \in ids THEN toggle_deleted(links[id]) ELSE links[id]]

ReplaceLine(lines, row, line) == [lines EXCEPT ![row + 1] = line]

InsertLineAt(lines, row, line) == Prefix(lines, row) \o <<line>> \o Suffix(lines, row)

RemoveLineAt(lines, row) == Prefix(lines, row) \o Suffix(lines, row + 1)

ApplyInsertChar(k, lines, links, before, after) ==
    IF ~(before.row < Len(lines)) \/ ~IsBoundary(lines[before.row + 1], before.offset)
       \/ ~(k.ids \subseteq DOMAIN links)
    THEN ApplyResult(lines, links, TRUE)
    ELSE LET line == lines[before.row + 1]
             n == CharsBefore(line, before.offset)
         IN ApplyResult(ReplaceLine(lines, before.row, Prefix(line, n) \o k.text[1] \o Suffix(line, n)),
                        TouchInsertToggle(links, k.ids), FALSE)

ApplyDeleteChar(k, lines, links, before, after) ==
    IF ~(before.row < Len(lines)) \/ ~IsBoundary(lines[before.row + 1], after.offset)
       \/ ~(after.offset < StrLen(lines[before.row + 1]))
       \/ ~(k.ids \subseteq DOMAIN links)
    THEN ApplyResult(lines, links, TRUE)
    ELSE LET line == lines[before.row + 1]
             n == CharsBefore(line, after.offset)
         IN ApplyResult(ReplaceLine(lines, before.row, Prefix(line, n) \o Suffix(line, n + 1)),
                        TouchDelete(links, k.ids), FALSE)

ApplyInsertLine(k, lines, links, before, after) ==
    IF ~(before.row <= Len(lines)) \/ ~(k.ids \subseteq DOMAIN links)
    THEN ApplyResult(lines, links, TRUE)
    ELSE ApplyResult(InsertLineAt(lines, before.row, k.text[1]),
                     TouchInsertToggle(links, k.ids), FALSE)

ApplyDeleteLine(k, lines, links, before, after) ==
    IF ~(before.row < Len(lines)) \/ ~(k.ids \subseteq DOMAIN links)
    THEN ApplyResult(lines, links, TRUE)
    ELSE ApplyResult(RemoveLineAt(lines, before.row), TouchDelete(links, k.ids), FALSE)

ApplyInsertStr(k, lines, links, before, after) ==
    IF ~(before.row < Len(lines)) \/ ~IsBoundary(lines[before.row + 1], before.offset)
       \/ ~(k.ids \subseteq DOMAIN links)
    THEN ApplyResult(lines, links, TRUE)
    ELSE LET line == lines[before.row + 1]
             n == CharsBefore(line, before.offset)
         IN ApplyResult(ReplaceLine(lines, before.row, Prefix(line, n) \o k.text[1] \o Suffix(line, n)),
                        TouchInsertClear(links, k.ids), FALSE)

ApplyDeleteStr(k, lines, links, before, after) ==
    IF ~(after.row < Len(lines)) \/ ~IsBoundary(lines[after.row + 1], after.offset)
       \/ ~IsBoundary(lines[after.row + 1], after.offset + StrLen(k.text[1]))
       \/ ~(k.ids \subseteq DOMAIN links)
    THEN ApplyResult(lines, links, TRUE)
    ELSE LET line == lines[after.row + 1]
             n == CharsBefore(line, after.offset)
             m == CharsBefore(line, after.offset + StrLen(k.text[1]))
         IN ApplyResult(ReplaceLine(lines, after.row, Prefix(line, n) \o Suffix(line, m)),
                        TouchDelete(links, k.ids), FALSE)

\* ApplyInsertChunk with the interior lines spliced in behind the new last line
ApplyInsertChunkSplicedLate(k, lines, links, before, after) ==
    IF ~(Len(k.text) > 1) \/ ~(before.row < Len(lines))
       \/ ~IsBoundary(lines[before.row + 1], before.offset)
       \/ ~(k.ids \subseteq DOMAIN links)
    THEN ApplyResult(lines, links, TRUE)
    ELSE LET c == k.text
             line == lines[before.row + 1]
             n == CharsBefore(line, before.offset)
             first_line == Prefix(line, n) \o c[1]
             last_line == c[Len(c)] \o Suffix(line, n)
             next_row == before.row + 1
             l1 == InsertLineAt(ReplaceLine(lines, before.row, first_line), next_row, last_line)
             l2 == Prefix(l1, next_row + 1) \o SubSeq(c, 2, Len(c) - 1) \o Suffix(l1, next_row + 1)
         IN ApplyResult(l2, TouchInsertClear(links, k.ids), FALSE)

ApplyInsertChunk(k, lines, links, before, after) ==
    IF ~(Len(k.text) > 1) \/ ~(before.row < Len(lines))
       \/ ~IsBoundary(lines[before.row + 1], before.offset)
       \/ ~(k.ids \subseteq DOMAIN links)
    THEN ApplyResult(lines, links, TRUE)
    ELSE LET c == k.text
             line == lines[before.row + 1]
             n == CharsBefore(line, before.offset)
             \* first_line.drain(before.offset..) ; first_line.push_str(&c[0])
             first_line == Prefix(line, n) \o c[1]
             \* last_line.insert_str(0, c.last())
             last_line == c[Len(c)] \o Suffix(line, n)
             next_row == before.row + 1
             \* lines.insert(next_row, last_line)
             l1 == InsertLineAt(ReplaceLine(lines, before.row, first_line), next_row, last_line)
             \* lines.splice(next_row..next_row, c[1..c.len() - 1])
             l2 == Prefix(l1, next_row) \o SubSeq(c, 2, Len(c) - 1) \o Suffix(l1, next_row)
         IN ApplyResult(l2, TouchInsertClear(links, k.ids), FALSE)

ApplyDeleteChunk(k, lines, links, before, after) ==
    LET c == k.text
        lo == after.row + 1
        hi == after.row + Len(c)
    IN IF ~(Len(c) > 1) \/ ~(hi <= Len(lines))
          \/ ~IsBoundary(lines[hi], StrLen(c[Len(c)]))
          \/ ~(k.ids \subseteq DOMAIN links)
       THEN ApplyResult(lines, links, TRUE)
       ELSE LET \* lines.drain(after.row + 1..after.row + c.len()).last().unwrap()
                drained == lines[hi]
                l1 == Prefix(lines, lo) \o Suffix(lines, hi)
                \* last_line.drain(..c[c.len() - 1].len())
                last_line == Suffix(drained, CharsBefore(drained, StrLen(c[Len(c)])))
                first == l1[after.row + 1]
                \* first_line.truncate(after.offset)
                truncated == IF after.offset > StrLen(first) THEN first
                             ELSE Prefix(first, CharsBefore(first, after.offset))
            IN IF after.offset <= StrLen(first) /\ ~IsBoundary(first, after.offset)
               THEN ApplyResult(lines, links, TRUE)
               ELSE ApplyResult(ReplaceLine(l1, after.row, truncated \o last_line),
                                TouchDelete(links, k.ids), FALSE)

ApplyInsertNewline(k, lines, links, before, after) ==
    IF ~(before.row < Len(lines)) \/ ~IsBoundary(lines[before.row + 1], before.offset)
    THEN ApplyResult(lines, links, TRUE)
    ELSE LET line == lines[before.row + 1]
             n == CharsBefore(line, before.offset)
         IN ApplyResult(InsertLineAt(ReplaceLine(lines, before.row, Prefix(line, n)),
                                     before.row + 1, Suffix(line, n)),
                        links, FALSE)

ApplyDeleteNewline(k, lines, links, before, after) ==
    IF ~(before.row > 0) \/ ~(before.row < Len(lines))
    THEN ApplyResult(lines, links, TRUE)
    ELSE LET line == lines[before.row + 1]
             l1 == RemoveLineAt(lines, before.row)
         IN ApplyResult(ReplaceLine(l1, before.row - 1, l1[before.row] \o line), links, FALSE)

\* EditKind::apply
Apply(k, lines, links, before, after) ==
    CASE k.tag = "InsertChar" -> ApplyInsertChar(k, lines, links, before, after)
      [] k.tag = "DeleteChar" -> ApplyDeleteChar(k, lines, links, before, after)
      [] k.tag = "InsertLine" -> ApplyInsertLine(k, lines, links, before, after)
      [] k.tag = "DeleteLine" -> ApplyDeleteLine(k, lines, links, before, after)
      [] k.tag = "InsertStr" -> ApplyInsertStr(k, lines, links, before, after)
      [] k.tag = "DeleteStr" -> ApplyDeleteStr(k, lines, links, before, after)
      [] k.tag = "InsertChunk" -> ApplyInsertChunk(k, lines, links, before, after)
      [] k.tag = "DeleteChunk" -> ApplyDeleteChunk(k, lines, links, before, after)
      [] k.tag = "InsertNewline" -> ApplyInsertNewline(k, lines, links, before, after)
      [] k.tag = "DeleteNewline" -> ApplyDeleteNewline(k, lines, links, before, after)

InvertTag(tag) ==
    CASE tag = "InsertChar" -> "DeleteChar"
      [] tag = "DeleteChar" -> "InsertChar"
      [] tag = "InsertLine" -> "DeleteLine"
      [] tag = "DeleteLine" -> "InsertLine"
      [] tag = "InsertStr" -> "DeleteStr"
      [] tag = "DeleteStr" -> "InsertStr"
      [] tag = "InsertChunk" -> "DeleteChunk"
      [] tag = "DeleteChunk" -> "InsertChunk"
      [] tag = "InsertNewline" -> "DeleteNewline"
      [] tag = "DeleteNewline" -> "InsertNewline"

\* EditKind::invert
Invert(k) == Kind(InvertTag(k.tag), k.text, k.ids)

(***************************************************************************)
(* Edit and History (history.rs)                                           *)
(***************************************************************************)
Edit(kind, before, after) == [kind |-> kind, before |-> before, after |-> after]

\* Edit::redo
EditRedo(e, lines, links) == Apply(e.kind, lines, links, e.before, e.after)

\* Edit::undo: undo is redo of the inverted edit with the positions swapped
EditUndo(e, lines, links) == Apply(Invert(e.kind), lines, links, e.after, e.before)

cursor_before(e) == <<e.before.row, e.before.col>>

cursor_after(e) == <<e.after.row, e.after.col>>

HistoryNew(max_items) == [index |-> 0, max_items |-> max_items, edits |-> <<>>]

\* History::push without the eviction of the oldest edit of a full history
HistoryPushNoEviction(h, edit) ==
    IF h.max_items = 0 THEN h
    ELSE LET e2 == IF h.index < Len(h.edits) THEN Prefix(h.edits, h.index) ELSE h.edits
         IN [h EXCEPT !.index = h.index + 1, !.edits = Append(e2, edit)]

\* History::push without the truncation of the redo tail
HistoryPushKeepsTail(h, edit) ==
    IF h.max_items = 0 THEN h
    ELSE LET full == Len(h.edits) = h.max_items
             e1 == IF full THEN Tail(h.edits) ELSE h.edits
             i1 == IF full THEN SatSub(h.index, 1) ELSE h.index
         IN [h EXCEPT !.index = i1 + 1, !.edits = Append(e1, edit)]

\* History::push evicting the newest edit of a full history (pop_back for pop_front)
HistoryPushEvictsNewest(h, edit) ==
    IF h.max_items = 0 THEN h
    ELSE LET full == Len(h.edits) = h.max_items
             e1 == IF full THEN Prefix(h.edits, Len(h.edits) - 1) ELSE h.edits
             i1 == IF full THEN SatSub(h.index, 1) ELSE h.index
             e2 == IF i1 < Len(e1) THEN Prefix(e1, i1) ELSE e1
         IN [h EXCEPT !.index = i1 + 1, !.edits = Append(e2, edit)]

\* History::push truncating the redo tail before it looks whether the history is full
HistoryPushTruncatesFirst(h, edit) ==
    IF h.max_items = 0 THEN h
    ELSE LET e1 == IF h.index < Len(h.edits) THEN Prefix(h.edits, h.index) ELSE h.edits
             full == Len(e1) = h.max_items
             e2 == IF full THEN Tail(e1) ELSE e1
             i1 == IF full THEN SatSub(h.index, 1) ELSE h.index
         IN [h EXCEPT !.index = i1 + 1, !.edits = Append(e2, edit)]

\* History::push
HistoryPush(h, edit) ==
    IF h.max_items = 0 THEN h
    ELSE LET full == Len(h.edits) = h.max_items
             \* self.edits.pop_front(); self.index = self.index.saturating_sub(1)
             e1 == IF full THEN Tail(h.edits) ELSE h.edits
             i1 == IF full THEN SatSub(h.index, 1) ELSE h.index
             \* if self.index < self.edits.len() { self.edits.truncate(self.index) }
             e2 == IF i1 < Len(e1) THEN Prefix(e1, i1) ELSE e1
         IN [h EXCEPT !.index = i1 + 1, !.edits = Append(e2, edit)]

HistoryResult(h, r, res) ==
    [history |-> h, lines |-> r.lines, links |-> r.links, panicked |-> r.panicked, res |-> res]

\* History::redo; res is None or <<cursor_before, cursor_after>>
HistoryRedo(h, lines, links) ==
    IF h.index = Len(h.edits)
    THEN HistoryResult(h, ApplyResult(lines, links, FALSE), None)
    ELSE LET edit == h.edits[h.index + 1]
             r == EditRedo(edit, lines, links)
         IN IF r.panicked THEN HistoryResult(h, r, None)
            ELSE HistoryResult([h EXCEPT !.index = h.index + 1], r,
                               <<cursor_before(edit), cursor_after(edit)>>)

\* History::undo
HistoryUndo(h, lines, links) ==
    IF h.index = 0
    THEN HistoryResult(h, ApplyResult(lines, links, FALSE), None)
    ELSE LET i == h.index - 1
             edit == h.edits[i + 1]
             r == EditUndo(edit, lines, links)
         IN IF r.panicked THEN HistoryResult([h EXCEPT !.index = i], r, None)
            ELSE HistoryResult([h EXCEPT !.index = i], r,
                               <<cursor_before(edit), cursor_after(edit)>>)

(***************************************************************************)
(* TextArea (textarea.rs).  The value t is the TextArea: the fields of the *)
(* struct that the buffer operations read or write, the flag "panicked",   *)
(* the flag "reflowed" (set when an operation enters the overhang reflow,  *)
(* shift_lines_after_insert or the partial join of delete_newline, whose   *)
(* word search is outside these sources; no operation is taken afterwards) *)
(* and "ret", the value returned by the last operation.                    *)
(* Operations that walk the link HashMap in an order that matters take the *)
(* iteration order as the parameter ord, a sequence of all link ids.       *)
(***************************************************************************)
USIZE_MAX == 2147483647

YankPiece(s, links, pos) == [kind |-> "Piece", text |-> <<s>>, links |-> links, pos |-> pos]

YankChunk(c, links, pos) == [kind |-> "Chunk", text |-> c, links |-> links, pos |-> pos]

\* a value computed once and named: Given([x \in {e} |-> body]) is body with x standing for e
Given(f) == f[CHOOSE x \in DOMAIN f : TRUE]

\* TextArea::new
TextAreaNew(lines, links, max_col) ==
    [lines |-> IF lines = <<>> THEN << <<>> >> ELSE lines,
     cursor |-> <<0, 0>>,
     links |-> links,
     pending_link |-> None,
     next_link_id |-> IF DOMAIN links = {} THEN 0
                      ELSE (CHOOSE m \in DOMAIN links : \A i \in DOMAIN links : i <= m) + 1,
     new_link |-> FALSE,
     deleted_link_ids |-> <<>>,
     copied_link_ids |-> <<>>,
     history |-> HistoryNew(DefaultMaxHistories),
     yank |-> YankPiece(<<>>, None, <<0, 0>>),
     selection_start |-> None,
     max_col |-> max_col,
     panicked |-> FALSE,
     reflowed |-> FALSE,
     ret |-> FALSE]

Panic(t) == [t EXCEPT !.panicked = TRUE]

Reflow(t) == [t EXCEPT !.reflowed = TRUE]

Halted(t) == t.panicked \/ t.reflowed

Ret(t, b) == [t EXCEPT !.ret = b]

\* set_max_histories
set_max_histories(t, max) == [t EXCEPT !.history = HistoryNew(max)]

\* push_history
push_history(t, kind, before, after_offset) ==
    [t EXCEPT !.history =
        HistoryPush(t.history, Edit(kind, before, Pos(t.cursor[1], t.cursor[2], after_offset)))]

\* get_current_line_len() >= max_col - 1
check_current_row_overhang(t) == StrLen(t.lines[t.cursor[1] + 1]) >= t.max_col - 1

SatShift(x, d) == IF d >= 0 THEN x + d ELSE SatSub(x, -d)

LiveIds(t) == {id \in DOMAIN t.links : ~t.links[id].deleted}

\* the ids in iteration order that satisfy P
RECURSIVE FilterSeq(_, _)
FilterSeq(ord, S) ==
    IF ord = <<>> THEN <<>>
    ELSE IF Head(ord) \in S THEN <<Head(ord)>> \o FilterSeq(Tail(ord), S)
         ELSE FilterSeq(Tail(ord), S)

\* in_link: the first live link in iteration order whose columns contain cpos; None if there is none
in_link(t, cpos, ord) ==
    LET hits == FilterSeq(ord, {id \in LiveIds(t) :
                    /\ t.links[id].row = cpos[1]
                    /\ cpos[2] >= t.links[id].start_col
                    /\ cpos[2] <= t.links[id].end_col})
    IN IF hits = <<>> THEN None ELSE <<Head(hits)>>

\* delete_link
delete_link(t, link_id) ==
    IF link_id \notin DOMAIN t.links THEN Panic(t)
    ELSE [t EXCEPT !.deleted_link_ids = Append(@, link_id),
                   !.links[link_id] = toggle_deleted(@)]

RECURSIVE delete_links(_, _)
delete_links(t, ids) ==
    IF ids = <<>> THEN t ELSE delete_links(delete_link(t, Head(ids)), Tail(ids))

\* the test of delete_links_in_range that keeps a link out of the range
OutOfRange(l, start, end) ==
    \/ (l.row < start[1] \/ l.row > end[1])
    \/ (l.row = start[1] /\ l.end_col < start[2])
    \/ (l.row = end[1] /\ l.start_col > end[2])

\* the snapshot of a link relative to the start of a range
RelativeLink(l, id, start) ==
    LET row_offset == l.row - start[1]
    IN IF row_offset = 0
       THEN NewLink(id, row_offset, l.start_col - start[2], l.end_col - start[2])
       ELSE NewLink(id, row_offset, l.start_col, l.end_col)

\* usize underflow while computing the snapshot
RelativeUnderflow(l, start) ==
    l.row < start[1] \/ (l.row = start[1] /\ (l.start_col < start[2] \/ l.end_col < start[2]))

RangeIds(t, start, end, ord) ==
    FilterSeq(ord, {id \in DOMAIN t.links : ~OutOfRange(t.links[id], start, end)})

\* delete_links_in_range: the result is [t, deleted]; deleted is None or the snapshots
delete_links_in_range(t, start, end, ord) ==
    LET ids == RangeIds(t, start, end, ord)
        deleted_links == IF ids = <<>> THEN None
                         ELSE [i \in 1..Len(ids) |-> RelativeLink(t.links[ids[i]], ids[i], start)]
    IN IF \E i \in 1..Len(ids) : RelativeUnderflow(t.links[ids[i]], start)
       THEN [t |-> Panic(t), deleted |-> None]
       ELSE [t |-> delete_links(t, ids), deleted |-> deleted_links]

SnapshotIds(snaps) == {snaps[i].id : i \in 1..Len(snaps)}

\* shift_links_same_row without its test of the row
shift_links_every_row(t, row, start_col, end_col) ==
    LET dcol == end_col - start_col
        Cast(n) == IF n = -1 THEN 0 ELSE n
    IN [t EXCEPT !.links = [id \in DOMAIN t.links |->
            LET l == t.links[id]
            IN IF l.start_col >= start_col /\ ~l.deleted
               THEN [l EXCEPT !.start_col = Cast(l.start_col + dcol),
                              !.end_col = Cast(l.end_col + dcol)]
               ELSE l]]

\* shift_links_same_row
shift_links_same_row(t, row, start_col, end_col) ==
    LET dcol == end_col - start_col
        Cast(n) == IF n = -1 THEN 0 ELSE n
    IN [t EXCEPT !.links = [id \in DOMAIN t.links |->
            LET l == t.links[id]
            IN IF l.row = row /\ l.start_col >= start_col /\ ~l.deleted
               THEN [l EXCEPT !.start_col = Cast(l.start_col + dcol),
                              !.end_col = Cast(l.end_col + dcol)]
               ELSE l]]

\* the loop body of shift_links_after_delete moving the row of a link and leaving its columns
AfterDeleteLinkKeepsColumns(l, start, end, shifted_to_prevline, max_col) ==
    LET drow == end[1] - start[1]
    IN IF l.row >= start[1]
       THEN IF l.end_col < max_col
            THEN [l EXCEPT !.row = SatShift(l.row, drow)]
            ELSE [l EXCEPT !.end_col = l.end_col - shifted_to_prevline,
                           !.start_col = l.start_col - shifted_to_prevline]
       ELSE l

\* the loop body of shift_links_after_delete pinning a link only beyond max_col
AfterDeleteLinkPinnedBeyondMax(l, start, end, shifted_to_prevline, max_col) ==
    LET drow == end[1] - start[1]
        dcol == end[2] - start[2]
        l1 == IF l.row = start[1] /\ l.start_col >= start[2]
              THEN [l EXCEPT !.start_col = SatShift(l.start_col, dcol),
                             !.end_col = SatShift(l.end_col, dcol)]
              ELSE l
    IN IF l.row >= start[1]
       THEN IF l1.end_col <= max_col
            THEN [l1 EXCEPT !.row = SatShift(l1.row, drow)]
            ELSE [l1 EXCEPT !.end_col = l.end_col - shifted_to_prevline,
                            !.start_col = l.start_col - shifted_to_prevline]
       ELSE l

\* the body of the loop of shift_links_after_delete for one live link
AfterDeleteLink(l, start, end, shifted_to_prevline, max_col) ==
    LET drow == end[1] - start[1]
        dcol == end[2] - start[2]
        l1 == IF l.row = start[1] /\ l.start_col >= start[2]
              THEN [l EXCEPT !.start_col = SatShift(l.start_col, dcol),
                             !.end_col = SatShift(l.end_col, dcol)]
              ELSE l
    IN IF l.row >= start[1]
       THEN IF l1.end_col < max_col
            THEN [l1 EXCEPT !.row = SatShift(l1.row, drow)]
            ELSE [l1 EXCEPT !.end_col = l.end_col - shifted_to_prevline,
                            !.start_col = l.start_col - shifted_to_prevline]
       ELSE l

\* shift_links_after_delete
shift_links_after_delete(t, start, end, shifted_to_prevline) ==
    LET new == [id \in DOMAIN t.links |->
                  IF t.links[id].deleted THEN t.links[id]
                  ELSE AfterDeleteLink(t.links[id], start, end, shifted_to_prevline, t.max_col)]
    IN IF \E id \in DOMAIN new : new[id].start_col < 0 \/ new[id].end_col < 0
       THEN Panic(t)
       ELSE [t EXCEPT !.links = new]

\* the loop body of shift_links_after_insert moving start_col and leaving end_col behind
AfterInsertLinkStartOnly(l, start, end) ==
    LET drow == end[1] - start[1]
        dcol == end[2] - start[2]
    IN IF l.edited THEN [l EXCEPT !.edited = FALSE]
       ELSE IF l.row = start[1] /\ l.start_col >= start[2]
       THEN [l EXCEPT !.start_col = SatShift(l.start_col, dcol),
                      !.row = SatShift(l.row, drow)]
       ELSE IF l.row > start[1]
       THEN [l EXCEPT !.row = SatShift(l.row, drow)]
       ELSE l

\* the body of the loop of shift_links_after_insert for one live link
AfterInsertLink(l, start, end) ==
    LET drow == end[1] - start[1]
        dcol == end[2] - start[2]
    IN IF l.edited THEN [l EXCEPT !.edited = FALSE]
       ELSE IF l.row = start[1] /\ l.start_col >= start[2]
       THEN [l EXCEPT !.start_col = SatShift(l.start_col, dcol),
                      !.end_col = SatShift(l.end_col, dcol),
                      !.row = SatShift(l.row, drow)]
       ELSE IF l.row > start[1]
       THEN [l EXCEPT !.row = SatShift(l.row, drow)]
       ELSE l

\* shift_links_after_insert without the filter that skips soft-deleted links
shift_links_after_insertOfEveryLink(t, start, end) ==
    [t EXCEPT !.links = [id \in DOMAIN t.links |-> AfterInsertLink(t.links[id], start, end)]]

\* shift_links_after_insert
shift_links_after_insert(t, start, end) ==
    [t EXCEPT !.links = [id \in DOMAIN t.links |->
        IF t.links[id].deleted THEN t.links[id] ELSE AfterInsertLink(t.links[id], start, end)]]

\* the body of the loop of shift_links_after_edit for one live link
AfterEditLink(l, start, end) ==
    LET drow == end[1] - start[1]
        dcol == end[2] - start[2]
    IN IF l.row >= start[1] /\ ~l.edited
       THEN LET l1 == IF (l.row = end[1] /\ l.start_col >= start[2])
                         \/ (l.row = start[1] /\ end[1] # start[1])
                      THEN [l EXCEPT !.start_col = SatShift(l.start_col, dcol),
                                     !.end_col = SatShift(l.end_col, dcol)]
                      ELSE l
            IN [l1 EXCEPT !.row = SatShift(l1.row, drow)]
       ELSE toggle_edited(l)

\* shift_links_after_edit
shift_links_after_edit(t, start, end) ==
    [t EXCEPT !.links = [id \in DOMAIN t.links |->
        IF t.links[id].deleted THEN t.links[id] ELSE AfterEditLink(t.links[id], start, end)]]

\* the links shift_links_newline visits before its loop breaks at an edited link
RECURSIVE VisitedBeforeEdited(_, _)
VisitedBeforeEdited(t, ord) ==
    IF ord = <<>> \/ t.links[Head(ord)].edited THEN {}
    ELSE {Head(ord)} \cup VisitedBeforeEdited(t, Tail(ord))

\* shift_links_newline
shift_links_newline(t, pos, ord) ==
    LET visited == VisitedBeforeEdited(t, ord)
    IN [t EXCEPT !.links = [id \in DOMAIN t.links |->
            LET l == t.links[id]
            IN IF id \notin visited THEN l
               ELSE IF l.row > pos[1] THEN [l EXCEPT !.row = l.row + 1]
               ELSE IF l.row = pos[1] /\ l.start_col >= pos[2]
               THEN [l EXCEPT !.row = l.row + 1,
                              !.start_col = SatSub(l.start_col, pos[2]),
                              !.end_col = SatSub(l.end_col, pos[2])]
               ELSE l]]

(***************************************************************************)
(* Cursor and selection                                                    *)
(***************************************************************************)
CursorRowOk(t) == t.cursor[1] < Len(t.lines)

CurLine(t) == t.lines[t.cursor[1] + 1]

\* CursorMove::Jump(row, col).next_cursor
JumpCursor(lines, row, col) ==
    LET r == Min(row, Len(lines) - 1)
    IN <<r, Min(col, CharCount(lines[r + 1]))>>

\* CursorMove::Forward.next_cursor; None when the cursor is at the end of the text
ForwardCursor(lines, cursor) ==
    IF cursor[2] >= CharCount(lines[cursor[1] + 1])
    THEN IF cursor[1] + 1 < Len(lines) THEN <<cursor[1] + 1, 0>> ELSE None
    ELSE <<cursor[1], cursor[2] + 1>>

\* start_selection
start_selection(t) == [t EXCEPT !.selection_start = t.cursor]

\* cancel_selection
cancel_selection(t) == [t EXCEPT !.selection_start = None]

\* move_cursor_with_shift, given the result of next_cursor
move_cursor_with_shift(t, next, shift) ==
    IF next = None THEN t
    ELSE LET t1 == IF shift
                   THEN IF t.selection_start = None THEN start_selection(t) ELSE t
                   ELSE cancel_selection(t)
         IN [t1 EXCEPT !.cursor = next]

\* move_cursor(CursorMove::Jump(row, col))
move_cursor_jump(t, row, col) ==
    move_cursor_with_shift(t, JumpCursor(t.lines, row, col), t.selection_start # None)

\* line_offset
line_offset(t, row, col) ==
    LET line == IF row < Len(t.lines) THEN t.lines[row + 1] ELSE t.lines[Len(t.lines)]
    IN OffsetOfCol(line, col)

\* selection_range: None or <<start, end>>
selection_range(t) ==
    IF t.selection_start = None THEN None
    ELSE LET sr == t.selection_start[1]
             sc == t.selection_start[2]
             er == t.cursor[1]
             ec == t.cursor[2]
             so == line_offset(t, sr, sc)
             eo == line_offset(t, er, ec)
             s == Pos(sr, sc, so)
             e == Pos(er, ec, eo)
         IN IF sr < er \/ (sr = er /\ so < eo) THEN <<s, e>>
            ELSE IF sr = er /\ so = eo THEN None
            ELSE <<e, s>>

(***************************************************************************)
(* Mutations                                                               *)
(***************************************************************************)
\* delete_range; link_ids are the ids of deleted_links
delete_range(t, start, end, deleted_links, should_yank) ==
    LET t0 == [t EXCEPT !.cursor = <<start.row, start.col>>]
        link_ids == SnapshotIds(deleted_links)
    IN IF ~(start.row < Len(t.lines)) THEN Panic(t0)
       ELSE LET sline == t.lines[start.row + 1] IN
       IF start.row = end.row
       THEN IF ~IsBoundary(sline, start.offset) \/ ~IsBoundary(sline, end.offset)
               \/ start.offset > end.offset
            THEN Panic(t0)
            ELSE LET n == CharsBefore(sline, start.offset)
                     m == CharsBefore(sline, end.offset)
                     removed == SubSeq(sline, n + 1, m)
                     t1 == [t0 EXCEPT !.lines = ReplaceLine(t.lines, start.row, Prefix(sline, n) \o Suffix(sline, m)),
                                      !.yank = IF should_yank
                                               THEN YankPiece(removed, deleted_links, <<start.row, start.col>>)
                                               ELSE @]
                 IN push_history(t1, Kind("DeleteStr", <<removed>>, link_ids), end, start.offset)
       ELSE IF ~IsBoundary(sline, start.offset) \/ ~(start.row + 1 <= end.row) \/ ~(end.row <= Len(t.lines))
            THEN Panic(t0)
            ELSE LET n == CharsBefore(sline, start.offset)
                     \* lines[start.row].drain(start.offset..)
                     first == Suffix(sline, n)
                     \* lines.drain(start.row + 1..end.row)
                     middle == SubSeq(t.lines, start.row + 2, end.row)
                     l1 == ReplaceLine(Prefix(t.lines, start.row + 1) \o Suffix(t.lines, end.row),
                                       start.row, Prefix(sline, n))
                     has_last == start.row + 1 < Len(l1)
                 IN IF has_last /\ ~IsBoundary(l1[start.row + 2], end.offset)
                    THEN Panic(t0)
                    ELSE LET last_line == l1[start.row + 2]
                             k == CharsBefore(last_line, end.offset)
                             l2 == IF has_last
                                   THEN ReplaceLine(RemoveLineAt(l1, start.row + 1), start.row,
                                                    l1[start.row + 1] \o Suffix(last_line, k))
                                   ELSE l1
                             deleted == IF has_last
                                        THEN <<first>> \o middle \o <<Prefix(last_line, k)>>
                                        ELSE <<first>> \o middle
                             t1 == [t0 EXCEPT !.lines = l2,
                                              !.yank = IF should_yank
                                                       THEN YankChunk(deleted, deleted_links, <<start.row, start.col>>)
                                                       ELSE @]
                             edit == IF Len(deleted) = 1
                                     THEN Kind("DeleteStr", <<deleted[1]>>, link_ids)
                                     ELSE Kind("DeleteChunk", deleted, link_ids)
                         IN push_history(t1, edit, end, start.offset)

\* delete_selection (with take_selection_range); ret tells whether a selection was deleted
delete_selection(t, should_yank, ord) ==
    Given([range \in {selection_range(t)} |->
        LET t0 == cancel_selection(t)
        IN IF range = None THEN Ret(t0, FALSE)
           ELSE LET s == range[1]
                    e == range[2]
                IN Given([d \in {delete_links_in_range(t0, <<s.row, s.col>>, <<e.row, e.col>>, ord)} |->
                       IF d.t.panicked THEN d.t
                       ELSE Given([t1 \in {shift_links_after_delete(d.t, <<e.row, e.col>>, <<s.row, s.col>>, 0)} |->
                                IF t1.panicked THEN t1
                                ELSE Ret(delete_range(t1, s, e, d.deleted, should_yank), TRUE)])])])

\* cut
cut(t, ord) == delete_selection(t, TRUE, ord)

\* init_link
init_link(t) == [t EXCEPT !.pending_link = t.cursor]

\* insert_link without the increment of next_link_id
insert_linkKeepsNextId(t) ==
    IF t.pending_link # None /\ t.pending_link[1] = t.cursor[1] /\ t.pending_link[2] <= t.cursor[2]
    THEN [t EXCEPT !.links = (t.next_link_id :>
                                NewLink(t.next_link_id, t.pending_link[1], t.pending_link[2], t.cursor[2]))
                             @@ t.links,
                   !.pending_link = None,
                   !.new_link = TRUE]
    ELSE t

\* insert_link
insert_link(t) ==
    IF t.pending_link # None /\ t.pending_link[1] = t.cursor[1] /\ t.pending_link[2] <= t.cursor[2]
    THEN [t EXCEPT !.links = (t.next_link_id :>
                                NewLink(t.next_link_id, t.pending_link[1], t.pending_link[2], t.cursor[2]))
                             @@ t.links,
                   !.next_link_id = t.next_link_id + 1,
                   !.pending_link = None,
                   !.new_link = TRUE]
    ELSE t

StartsWithHash(line) == line # <<>> /\ Head(line) = "#"

\* insert_newline
insert_newline(t, ord) ==
    Given([t1 \in {delete_selection(t, FALSE, ord)} |->
        IF t1.panicked THEN t1
        ELSE IF ~CursorRowOk(t1) THEN Panic(t1)
        ELSE LET row == t1.cursor[1]
                 col == t1.cursor[2]
                 line == t1.lines[row + 1]
                 offset == OffsetOfCol(line, col)
                 n == Min(col, Len(line))
                 t2 == [t1 EXCEPT !.lines = InsertLineAt(ReplaceLine(t1.lines, row, Prefix(line, n)),
                                                         row + 1, Suffix(line, n))]
                 t3 == shift_links_newline(t2, t1.cursor, ord)
                 t4 == [t3 EXCEPT !.cursor = <<row + 1, 0>>]
             IN Ret(push_history(t4, Kind("InsertNewline", <<>>, {}), Pos(row, col, offset), 0), TRUE)])

\* insert_char
insert_char(t, c, ord) ==
    IF c = "\n" \/ c = "\r" THEN insert_newline(t, ord)
    ELSE IF ~CursorRowOk(t) THEN Panic(t)
    ELSE Given([t1 \in {IF c = "[" /\ ~StartsWithHash(CurLine(t)) THEN init_link(t)
                        ELSE IF c = "]" /\ ~StartsWithHash(CurLine(t)) THEN insert_link(t)
                        ELSE IF check_current_row_overhang(t) THEN Reflow(t)
                        ELSE t} |->
             IF t1.reflowed THEN t1
             ELSE LET row == t1.cursor[1]
                      col == t1.cursor[2]
                  IN Given([t2 \in {shift_links_same_row(t1, row, col, col + 1)} |->
                         LET line == t2.lines[row + 1]
                             i == OffsetOfCol(line, col)
                             n == Min(col, Len(line))
                             t3 == [t2 EXCEPT !.lines = ReplaceLine(t2.lines, row,
                                                            Prefix(line, n) \o <<c>> \o Suffix(line, n)),
                                              !.cursor = <<row, col + 1>>]
                         IN Ret(push_history(t3, Kind("InsertChar", << <<c>> >>, {}), Pos(row, col, i),
                                             i + ByteLen(c)), TRUE)])])

\* insert_piece
insert_piece(t, s, ids) ==
    IF s = <<>> THEN Ret(t, FALSE)
    ELSE IF ~CursorRowOk(t) THEN Panic(t)
    ELSE LET row == t.cursor[1]
             col == t.cursor[2]
             line == t.lines[row + 1]
             line_len == StrLen(line)
             s_len == StrLen(s)
             i == OffsetOfCol(line, col)
             n == Min(col, Len(line))
             end_offset == i + s_len
             overhang == (line_len + s_len) - t.max_col
             \* line.insert_str(i, &s); self.cursor.1 += s_len
             t1 == [t EXCEPT !.lines = ReplaceLine(t.lines, row, Prefix(line, n) \o s \o Suffix(line, n)),
                             !.cursor = <<row, col + s_len>>]
         IN Given([t2 \in {shift_links_after_insert(t1, <<row, col>>, <<row, col + s_len>>)} |->
                IF overhang >= 0 THEN Reflow(t2)
                ELSE Ret(push_history(t2, Kind("InsertStr", <<s>>, ids), Pos(row, col, i), end_offset), TRUE)])

\* insert_chunk
insert_chunk(t, chunk, ids) ==
    IF ~(Len(chunk) > 1) \/ ~CursorRowOk(t) THEN Panic(t)
    ELSE LET row == t.cursor[1]
             col == t.cursor[2]
             line == t.lines[row + 1]
             i == OffsetOfCol(line, col)
             before == Pos(row, col, i)
             clen == Len(chunk)
             new_row == row + clen - 1
             new_col == CharCount(chunk[clen])
             end_offset == StrLen(chunk[clen])
             edit == Kind("InsertChunk", chunk, ids)
         IN Given([t1 \in {shift_links_after_insert([t EXCEPT !.cursor = <<new_row, new_col>>],
                                                    <<row, col>>, <<new_row, new_col>>)} |->
                Given([r \in {Apply(edit, t1.lines, t1.links, before, Pos(new_row, new_col, end_offset))} |->
                    IF r.panicked THEN Panic(t1)
                    ELSE Ret(push_history([t1 EXCEPT !.lines = r.lines, !.links = r.links],
                                          edit, before, end_offset), TRUE)])])

\* insert_str; text is s split at newlines, ids the ids of insert_links
insert_str(t, text, ids, ord) ==
    Given([t1 \in {delete_selection(t, FALSE, ord)} |->
        IF t1.panicked THEN t1
        ELSE IF Len(text) = 1 THEN insert_piece(t1, text[1], ids)
        ELSE insert_chunk(t1, text, ids)])

\* link_in_range
link_in_range(l, start, end) ==
    IF start.row = end.row /\ l.row = start.row
    THEN l.start_col >= start.col /\ l.end_col <= end.col
    ELSE IF l.row = start.row THEN l.start_col >= start.col
    ELSE IF l.row = end.row THEN l.end_col <= end.col
    ELSE l.row > start.row /\ l.row < end.row

\* the snapshots copy and delete_str store in the clipboard, in iteration order
LinksInRange(t, start, end, ord) ==
    LET ids == FilterSeq(ord, {id \in DOMAIN t.links : link_in_range(t.links[id], start, end)})
    IN IF ids = <<>> THEN None
       ELSE [i \in 1..Len(ids) |-> RelativeLink(t.links[ids[i]], ids[i], <<start.row, start.col>>)]

\* the closure find_end of delete_str applied to the rows from r on, with the characters
\* that remain to be deleted; the result is <<row, col>> of the end of the deletion
RECURSIVE FindEndFrom(_, _, _)
FindEndFrom(lines, r, remaining) ==
    IF ~(r < Len(lines)) THEN <<r, 0>>
    ELSE IF remaining <= Len(lines[r + 1]) THEN <<r, remaining>>
    ELSE FindEndFrom(lines, r + 1, remaining - Len(lines[r + 1]) - 1)

\* delete_str
delete_str(t, chars, ord) ==
    Given([t1 \in {delete_selection(t, FALSE, ord)} |->
        IF t1.panicked \/ t1.ret THEN t1
        ELSE IF chars = 0 THEN Ret(t1, FALSE)
        ELSE IF ~CursorRowOk(t1) THEN Panic(t1)
        ELSE LET start_row == t1.cursor[1]
                 start_col == t1.cursor[2]
                 line == t1.lines[start_row + 1]
                 start_offset == OffsetOfCol(line, start_col)
                 n == Min(start_col, Len(line))
                 rest == Suffix(line, n)
             IN IF chars <= Len(rest)
                THEN \* the deletion ends in the first line
                     LET end_col == start_col + chars
                         removed == Prefix(rest, chars)
                         end_offset == start_offset + StrLen(removed)
                         start == Pos(start_row, start_col, start_offset)
                         end == Pos(start_row, end_col, end_offset)
                         t2 == [t1 EXCEPT !.lines = ReplaceLine(t1.lines, start_row,
                                                                Prefix(line, n) \o Suffix(rest, chars))]
                         t3 == [t2 EXCEPT !.yank = YankPiece(removed, LinksInRange(t2, start, end, ord),
                                                             <<start_row, start_col>>)]
                     IN Ret(push_history(t3, Kind("DeleteStr", <<removed>>, {}),
                                         Pos(start_row, end_col, end_offset), start_offset), TRUE)
                ELSE Given([e \in {FindEndFrom(t1.lines, start_row + 1, chars - Len(rest) - 1)} |->
                         LET offset == IF e[1] < Len(t1.lines)
                                       THEN StrLen(Prefix(t1.lines[e[1] + 1], e[2])) ELSE 0
                         IN Ret(delete_range(t1, Pos(start_row, start_col, start_offset),
                                             Pos(e[1], e[2], offset), None, TRUE), TRUE)])])

\* delete_piece
delete_piece(t, col, claimed, ord) ==
    IF claimed = 0 THEN Ret(t, FALSE)
    ELSE IF ~CursorRowOk(t) THEN Panic(t)
    ELSE LET row == t.cursor[1]
             line == t.lines[row + 1]
         IN IF ~(col < Len(line)) THEN Ret(t, FALSE)
            ELSE LET i == StrLen(Prefix(line, col))
                     \* bytes_and_chars(chars, &line[i..])
                     chars == Min(claimed, Len(line) - col)
                     removed == SubSeq(line, col + 1, col + chars)
                     bytes == StrLen(removed)
                     newline == Prefix(line, col) \o Suffix(line, col + chars)
                     line_empty == newline = <<>>
                     t1 == [t EXCEPT !.lines = ReplaceLine(t.lines, row, newline)]
                     start_col == IF line_empty THEN col ELSE col + chars
                 IN Given([d \in {delete_links_in_range(t1, <<row, col>>, <<row, col + chars>>, ord)} |->
                        IF d.t.panicked THEN d.t
                        ELSE Given([t2 \in {shift_links_after_delete(d.t, <<row, start_col>>, <<row, col>>, 0)} |->
                                 IF t2.panicked THEN t2
                                 ELSE LET t3 == [t2 EXCEPT !.cursor = <<row, col>>]
                                          t4 == push_history(t3, Kind("DeleteStr", <<removed>>,
                                                                      SnapshotIds(d.deleted)),
                                                             Pos(row, col + chars, i + bytes), i)
                                      IN Ret([t4 EXCEPT !.yank = YankPiece(removed, d.deleted,
                                                                           <<row, start_col>>)], TRUE)])])

\* delete_newline
delete_newline(t, ord) ==
    Given([t1 \in {delete_selection(t, FALSE, ord)} |->
        IF t1.panicked \/ t1.ret THEN t1
        ELSE IF t1.cursor[1] = 0 THEN Ret(t1, FALSE)
        ELSE IF ~CursorRowOk(t1) THEN Panic(t1)
        ELSE LET row == t1.cursor[1]
                 line_end == StrLen(t1.lines[row + 1])
                 prev_line_end == StrLen(t1.lines[row])
                 to_drain == t1.max_col - prev_line_end - 1
             IN IF to_drain < 0 THEN Panic(t1)
                ELSE IF ~(prev_line_end = 0 \/ line_end = 0 \/ line_end + prev_line_end < t1.max_col)
                THEN Reflow(t1)
                ELSE LET line == t1.lines[row + 1]
                         t2 == [t1 EXCEPT !.lines = RemoveLineAt(t1.lines, row)]
                     IN Given([t3 \in {shift_links_after_delete(t2, <<row, 0>>, <<row - 1, prev_line_end>>,
                                                                to_drain)} |->
                            IF t3.panicked THEN t3
                            ELSE LET prev_line == t3.lines[row]
                                     t4 == [t3 EXCEPT !.cursor = <<row - 1, CharCount(prev_line)>>,
                                                      !.lines = ReplaceLine(t3.lines, row - 1, prev_line \o line)]
                                 IN Ret(push_history(t4, Kind("DeleteNewline", <<>>, {}), Pos(row, 0, 0),
                                                     prev_line_end), TRUE)])])

\* delete_line without the line it pushes when the buffer is left empty
delete_lineLeavesNoLine(t, shift_up, ord) ==
    IF ~CursorRowOk(t) THEN Panic(t)
    ELSE LET row == t.cursor[1]
             line == t.lines[row + 1]
             t1 == [t EXCEPT !.lines = RemoveLineAt(t.lines, row)]
         IN Given([d \in {delete_links_in_range(t1, <<row, 0>>, <<row, USIZE_MAX>>, ord)} |->
                IF d.t.panicked THEN d.t
                ELSE Given([t2 \in {shift_links_after_delete(d.t, <<row + 1, 0>>, <<row, 0>>, 0)} |->
                         IF t2.panicked THEN t2
                         ELSE Given([t3 \in {push_history(t2, Kind("DeleteLine", <<line>>,
                                                                   SnapshotIds(d.deleted)),
                                                          Pos(row + 1, 0, 0), 0)} |->
                                  Ret(IF row = 0 /\ t3.lines = <<>>
                                      THEN [t3 EXCEPT !.cursor = <<0, 0>>]
                                      ELSE IF row = Len(t3.lines)
                                      THEN [t3 EXCEPT !.cursor[1] = row - 1]
                                      ELSE [t3 EXCEPT !.cursor[1] = IF shift_up THEN SatSub(t3.cursor[1], 1)
                                                                     ELSE t3.cursor[1]],
                                      TRUE)])])])

\* delete_line
delete_line(t, shift_up, ord) ==
    IF ~CursorRowOk(t) THEN Panic(t)
    ELSE LET row == t.cursor[1]
             line == t.lines[row + 1]
             t1 == [t EXCEPT !.lines = RemoveLineAt(t.lines, row)]
         IN Given([d \in {delete_links_in_range(t1, <<row, 0>>, <<row, USIZE_MAX>>, ord)} |->
                IF d.t.panicked THEN d.t
                ELSE Given([t2 \in {shift_links_after_delete(d.t, <<row + 1, 0>>, <<row, 0>>, 0)} |->
                         IF t2.panicked THEN t2
                         ELSE Given([t3 \in {push_history(t2, Kind("DeleteLine", <<line>>,
                                                                   SnapshotIds(d.deleted)),
                                                          Pos(row + 1, 0, 0), 0)} |->
                                  Ret(IF row = 0 /\ t3.lines = <<>>
                                      THEN [t3 EXCEPT !.lines = << <<>> >>, !.cursor = <<0, 0>>]
                                      ELSE IF row = Len(t3.lines)
                                      THEN [t3 EXCEPT !.cursor[1] = row - 1]
                                      ELSE [t3 EXCEPT !.cursor[1] = IF shift_up THEN SatSub(t3.cursor[1], 1)
                                                                     ELSE t3.cursor[1]],
                                      TRUE)])])])

\* delete_char
delete_char(t, ord) ==
    Given([t1 \in {delete_selection(t, FALSE, ord)} |->
        IF t1.panicked \/ t1.ret THEN t1
        ELSE IF t1.cursor[1] > 0 /\ t1.cursor[2] = 0 /\ ~(t1.cursor[1] - 1 < Len(t1.lines)) THEN Panic(t1)
        ELSE LET row == t1.cursor[1]
                 col == t1.cursor[2]
                 delete_pos == IF row > 0 /\ col = 0 THEN <<row - 1, StrLen(t1.lines[row])>>
                               ELSE IF row = 0 /\ col = 0 THEN <<0, 0>>
                               ELSE <<row, col - 1>>
             IN Given([hit \in {in_link(t1, delete_pos, ord)} |->
                    LET t2 == IF hit # None THEN delete_link(t1, hit[1]) ELSE t1
                        link_ids == IF hit # None THEN {hit[1]} ELSE {}
                    IN IF col = 0 THEN delete_newline(t2, ord)
                       ELSE Given([t3 \in {shift_links_after_delete(t2, <<row, col>>, delete_pos, 0)} |->
                                IF t3.panicked THEN t3
                                ELSE IF ~CursorRowOk(t3) THEN Panic(t3)
                                ELSE LET line == t3.lines[row + 1]
                                     IN IF ~(col - 1 < Len(line)) THEN Ret(t3, FALSE)
                                        ELSE LET offset == StrLen(Prefix(line, col - 1))
                                                 c == line[col]
                                                 t4 == [t3 EXCEPT !.lines = ReplaceLine(t3.lines, row,
                                                                                Prefix(line, col - 1)
                                                                                \o Suffix(line, col)),
                                                                  !.cursor = <<row, col - 1>>]
                                             IN Ret(push_history(t4, Kind("DeleteChar", << <<c>> >>, link_ids),
                                                                 Pos(row, col, offset + ByteLen(c)), offset),
                                                    TRUE)])])])

\* delete_next_char
delete_next_char(t, ord) ==
    Given([t1 \in {delete_selection(t, FALSE, ord)} |->
        IF t1.panicked \/ t1.ret THEN t1
        ELSE IF ~CursorRowOk(t1) THEN Panic(t1)
        ELSE Given([t2 \in {move_cursor_with_shift(t1, ForwardCursor(t1.lines, t1.cursor), FALSE)} |->
                 IF t2.cursor = t1.cursor THEN Ret(t1, FALSE)
                 ELSE delete_char(t2, ord)])])

\* delete_line_by_end
delete_line_by_end(t, ord) ==
    Given([t1 \in {delete_selection(t, FALSE, ord)} |->
        IF t1.panicked \/ t1.ret THEN t1
        ELSE Given([t2 \in {delete_piece(t1, t1.cursor[2], USIZE_MAX, ord)} |->
                 IF t2.panicked \/ t2.ret THEN t2
                 ELSE delete_next_char(t2, ord)])])

\* delete_line_by_head
delete_line_by_head(t, ord) ==
    Given([t1 \in {delete_selection(t, FALSE, ord)} |->
        IF t1.panicked \/ t1.ret THEN t1
        ELSE Given([t2 \in {delete_piece(t1, 0, t1.cursor[2], ord)} |->
                 IF t2.panicked \/ t2.ret THEN t2
                 ELSE delete_newline(t2, ord)])])

\* delete_word; found is the result of find_word_start_backward: None or <<end_col>>
delete_word(t, found, ord) ==
    Given([t1 \in {delete_selection(t, FALSE, ord)} |->
        IF t1.panicked \/ t1.ret THEN t1
        ELSE LET start_col == t1.cursor[2]
             IN IF found # None THEN delete_piece(t1, found[1], start_col - found[1], ord)
                ELSE IF start_col > 0 THEN delete_piece(t1, 0, start_col, ord)
                ELSE delete_newline(t1, ord)])

\* delete_next_word; found is the result of find_word_end_forward: None or <<end_col>>
delete_next_word(t, found, ord) ==
    Given([t1 \in {delete_selection(t, FALSE, ord)} |->
        IF t1.panicked \/ t1.ret THEN t1
        ELSE IF ~CursorRowOk(t1) THEN Panic(t1)
        ELSE LET r == t1.cursor[1]
                 start_col == t1.cursor[2]
                 end_col == CharCount(t1.lines[r + 1])
             IN IF found # None THEN delete_piece(t1, start_col, found[1] - start_col, ord)
                ELSE IF start_col < end_col THEN delete_piece(t1, start_col, end_col - start_col, ord)
                ELSE IF r + 1 < Len(t1.lines) THEN delete_newline([t1 EXCEPT !.cursor = <<r + 1, 0>>], ord)
                ELSE Ret(t1, FALSE)])

\* copy
copy(t, ord) ==
    Given([range \in {selection_range(t)} |->
        LET t0 == cancel_selection(t)
        IN IF range = None THEN t0
           ELSE LET start == range[1]
                    end == range[2]
                    links == LinksInRange(t0, start, end, ord)
                    sline == t0.lines[start.row + 1]
                    eline == t0.lines[end.row + 1]
                IN IF ~(start.row < Len(t0.lines)) \/ ~(end.row < Len(t0.lines)) THEN Panic(t0)
                   ELSE IF start.row = end.row
                   THEN [t0 EXCEPT !.yank = YankPiece(SubSeq(sline, CharsBefore(sline, start.offset) + 1,
                                                             CharsBefore(sline, end.offset)),
                                                      links, <<start.row, start.col>>)]
                   ELSE [t0 EXCEPT !.yank = YankChunk(<<Suffix(sline, CharsBefore(sline, start.offset))>>
                                                      \o SubSeq(t0.lines, start.row + 2, end.row)
                                                      \o <<Prefix(eline, CharsBefore(eline, end.offset))>>,
                                                      links, <<start.row, start.col>>)]])

\* the loop of paste over the clipboard's link snapshots; acc is [t, copies, missing]
RECURSIVE PasteLinks(_, _, _, _, _)
PasteLinks(acc, yanked, row, col, kind) ==
    IF yanked = <<>> \/ acc.missing THEN acc
    ELSE LET y == Head(yanked)
             t == acc.t
         IN IF y.id \notin DOMAIN t.links
            THEN [acc EXCEPT !.missing = TRUE]
            ELSE LET link == t.links[y.id]
                     moved == [link EXCEPT !.deleted = FALSE, !.edited = TRUE,
                                           !.row = row + y.row,
                                           !.start_col = col + y.start_col,
                                           !.end_col = col + y.end_col]
                     copied == IF kind = "Piece"
                               THEN NewLink(t.next_link_id, row, col + y.start_col, col + y.end_col)
                               ELSE IF y.row = 0
                               THEN NewLink(t.next_link_id, row + y.row, col + y.start_col, col + y.end_col)
                               ELSE NewLink(t.next_link_id, row + y.row, link.start_col, link.end_col)
                     next == IF link.deleted
                             THEN [t |-> [t EXCEPT !.links[y.id] = moved],
                                   copies |-> acc.copies, missing |-> FALSE]
                             ELSE [t |-> [t EXCEPT !.links = (copied.id :> [copied EXCEPT !.edited = TRUE]) @@ t.links,
                                                   !.copied_link_ids = (copied.id :> link.id) @@ t.copied_link_ids,
                                                   !.next_link_id = t.next_link_id + 1],
                                   copies |-> acc.copies \cup {copied.id}, missing |-> FALSE]
                 IN PasteLinks(next, Tail(yanked), row, col, kind)

\* paste
paste(t, ord) ==
    Given([t1 \in {delete_selection(t, FALSE, ord)} |->
        IF t1.panicked THEN t1
        ELSE LET row == t1.cursor[1]
                 col == t1.cursor[2]
                 y == t1.yank
             IN Given([p \in {PasteLinks([t |-> t1, copies |-> {}, missing |-> FALSE], y.links,
                                         row, col, y.kind)} |->
                    IF p.missing THEN Panic(p.t)
                    ELSE IF y.kind = "Piece" THEN insert_piece(p.t, y.text[1], p.copies)
                    ELSE insert_chunk(p.t, y.text, p.copies)])])

\* undo cancelling the selection before it looks at the history
undoCancelsSelectionFirst(t) ==
    Given([r \in {HistoryUndo(t.history, t.lines, t.links)} |->
        LET t1 == [cancel_selection(t) EXCEPT !.history = r.history, !.lines = r.lines, !.links = r.links]
        IN IF r.panicked THEN Panic(t1)
           ELSE IF r.res = None THEN Ret(t1, FALSE)
           ELSE LET cursor_bef == r.res[1]
                    cursor_aft == r.res[2]
                    t2 == shift_links_after_edit(t1, cursor_aft, cursor_bef)
                IN Ret([t2 EXCEPT !.cursor = cursor_bef], TRUE)])

\* undo
undo(t) ==
    Given([r \in {HistoryUndo(t.history, t.lines, t.links)} |->
        LET t1 == [t EXCEPT !.history = r.history, !.lines = r.lines, !.links = r.links]
        IN IF r.panicked THEN Panic(t1)
           ELSE IF r.res = None THEN Ret(t1, FALSE)
           ELSE LET cursor_bef == r.res[1]
                    cursor_aft == r.res[2]
                    t2 == shift_links_after_edit(cancel_selection(t1), cursor_aft, cursor_bef)
                IN Ret([t2 EXCEPT !.cursor = cursor_bef], TRUE)])

\* redo
redo(t) ==
    Given([r \in {HistoryRedo(t.history, t.lines, t.links)} |->
        LET t1 == [t EXCEPT !.history = r.history, !.lines = r.lines, !.links = r.links]
        IN IF r.panicked THEN Panic(t1)
           ELSE IF r.res = None THEN Ret(t1, FALSE)
           ELSE LET cursor_bef == r.res[1]
                    cursor_aft == r.res[2]
                    t2 == shift_links_after_edit(cancel_selection(t1), cursor_bef, cursor_aft)
                IN Ret([t2 EXCEPT !.cursor = cursor_aft], TRUE)])

\* clear_lines
clear_lines(t) == [t EXCEPT !.lines = << <<>> >>]

(***************************************************************************)
(* The state machine.  ta is the text area.  trail records the operations  *)
(* taken so far other than the moves of the cursor and of the selection:   *)
(* its first entry is the construction, and every entry holds the name of  *)
(* the operation, its input and the text area it left.  budget is the      *)
(* number of operations a behaviour takes after the construction.  ed is   *)
(* the state of an EditKind applied on its own (SpecK).                    *)
(***************************************************************************)
VARIABLES ta, trail, budget, ed

vars == <<ta, trail, budget, ed>>

Chars == {"[", "]", WideChar}

EdIdle == [phase |-> "idle"]

\* the buffers and link stores a text area is constructed with
InitConfigs ==
    { [lines |-> <<>>, links |-> <<>>],
      [lines |-> << <<"a", "[", "]">>, <<WideChar>> >>, links |-> (0 :> NewLink(0, 0, 1, 2))],
      [lines |-> << <<"a">>, <<"[", "]">> >>, links |-> (0 :> NewLink(0, 1, 0, 1))] }

\* every order in which the link HashMap can be iterated
Orders(t) ==
    LET D == DOMAIN t.links
        n == Cardinality(D)
    IN {o \in [1..n -> D] : \A i, j \in 1..n : i # j => o[i] # o[j]}

WithinBounds(t) ==
    /\ Len(t.lines) <= MaxLines
    /\ \A r \in 1..Len(t.lines) : CharCount(t.lines[r]) <= MaxLineLen
    /\ Cardinality(DOMAIN t.links) <= MaxLinks

Rows(t) == 0..(Len(t.lines) - 1)

Cols(t, r) == 0..CharCount(t.lines[r + 1])

NoSelection == selection_range(ta) = None

Entry(name, arg, post) == [op |-> name, params |-> arg, post |-> post]

Constructed(t) == <<Entry("new", <<>>, t)>>

OpsTaken == Len(trail) - 1

\* an operation that is recorded in the trail
Step(name, arg, new) ==
    /\ ~Halted(ta)
    /\ OpsTaken < budget
    /\ WithinBounds(new)
    /\ ta' = new
    /\ trail' = Append(trail, Entry(name, arg, new))
    /\ UNCHANGED <<budget, ed>>

\* a move of the cursor or of the selection
Move(new) ==
    /\ ~Halted(ta)
    /\ OpsTaken < budget
    /\ ta' = new
    /\ UNCHANGED <<trail, budget, ed>>

Init ==
    /\ \E c \in InitConfigs : ta = TextAreaNew(c.lines, c.links, DefaultMaxCol)
    /\ trail = Constructed(ta)
    /\ budget = MaxOps
    /\ ed = EdIdle

MoveCursor == \E r \in Rows(ta) : \E c \in Cols(ta, r) : Move(move_cursor_jump(ta, r, c))

StartSelection == Move(start_selection(ta))

CancelSelection == Move(cancel_selection(ta))

InsertChar == \E c \in Chars : \E o \in Orders(ta) : Step("insert_char", <<c>>, insert_char(ta, c, o))

InsertTexts == { << <<>> >>, << <<WideChar>> >>, << <<"a", "a">> >>, << <<"a">>, <<>> >> }

InsertStr == \E x \in InsertTexts : \E o \in Orders(ta) : Step("insert_str", x, insert_str(ta, x, {}, o))

InsertNewline == \E o \in Orders(ta) : Step("insert_newline", <<>>, insert_newline(ta, o))

DeleteChar == \E o \in Orders(ta) : Step("delete_char", <<>>, delete_char(ta, o))

\* With a non-empty selection the delete operations below delete the selection and return, as
\* delete_char does; the model takes that path through delete_char and cut.
DeleteNextChar ==
    NoSelection /\ \E o \in Orders(ta) : Step("delete_next_char", <<>>, delete_next_char(ta, o))

DeleteNewline ==
    NoSelection /\ \E o \in Orders(ta) : Step("delete_newline", <<>>, delete_newline(ta, o))

DeleteStr ==
    NoSelection /\ \E n \in 0..MaxDelete : \E o \in Orders(ta) : Step("delete_str", <<n>>, delete_str(ta, n, o))

DeleteLine == \E b \in BOOLEAN : \E o \in Orders(ta) : Step("delete_line", <<b>>, delete_line(ta, b, o))

DeleteLineByHead ==
    NoSelection /\ \E o \in Orders(ta) : Step("delete_line_by_head", <<>>, delete_line_by_head(ta, o))

DeleteLineByEnd ==
    NoSelection /\ \E o \in Orders(ta) : Step("delete_line_by_end", <<>>, delete_line_by_end(ta, o))

\* the word start is some column in front of the cursor, or is not found
DeleteWord ==
    /\ NoSelection
    /\ \E f \in {None} \cup {<<e>> : e \in 0..(ta.cursor[2] - 1)} : \E o \in Orders(ta) :
          Step("delete_word", f, delete_word(ta, f, o))

\* the word end is some column behind the cursor, or is not found
DeleteNextWord ==
    /\ NoSelection
    /\ CursorRowOk(ta)
    /\ \E f \in {None} \cup {<<e>> : e \in (ta.cursor[2] + 1)..CharCount(CurLine(ta))} : \E o \in Orders(ta) :
          Step("delete_next_word", f, delete_next_word(ta, f, o))

Cut == \E o \in Orders(ta) : Step("cut", <<>>, cut(ta, o))

Copy == \E o \in Orders(ta) : Step("copy", <<>>, copy(ta, o))

Paste == \E o \in Orders(ta) : Step("paste", <<>>, paste(ta, o))

Undo == Step("undo", <<>>, undo(ta))

Redo == Step("redo", <<>>, redo(ta))

ClearLines == Step("clear_lines", <<>>, clear_lines(ta))

Next ==
    \/ MoveCursor
    \/ StartSelection
    \/ CancelSelection
    \/ InsertChar
    \/ InsertStr
    \/ InsertNewline
    \/ DeleteChar
    \/ DeleteNextChar
    \/ DeleteNewline
    \/ DeleteStr
    \/ DeleteLine
    \/ DeleteLineByHead
    \/ DeleteLineByEnd
    \/ DeleteWord
    \/ DeleteNextWord
    \/ Cut
    \/ Copy
    \/ Paste
    \/ Undo
    \/ Redo
    \/ ClearLines

Spec == Init /\ [][Next]_vars

(***************************************************************************)
(* The history on its own (SpecH): a text area whose history has capacity  *)
(* N, for every N up to MaxCap, edited at the cursor by insert_char and    *)
(* taken back and forth by undo and redo.  A behaviour takes up to         *)
(* 2 * MaxCap + 2 operations, enough to push N + 1 edits and to undo       *)
(* N + 1 times.                                                            *)
(***************************************************************************)
HistOps == 2 * MaxCap + 2

InitH ==
    /\ \E n \in 0..MaxCap : ta = set_max_histories(TextAreaNew(<<>>, <<>>, DefaultMaxCol), n)
    /\ trail = Constructed(ta)
    /\ budget = HistOps
    /\ ed = EdIdle

NextH == InsertChar \/ Undo \/ Redo

SpecH == InitH /\ [][NextH]_vars

(***************************************************************************)
(* Deleting whole lines and taking that back and forth (SpecLine).         *)
(***************************************************************************)
InitLine ==
    /\ \E c \in InitConfigs : ta = TextAreaNew(c.lines, c.links, DefaultMaxCol)
    /\ trail = Constructed(ta)
    /\ budget = MaxLineOps
    /\ ed = EdIdle

NextLine == MoveCursor \/ DeleteLine \/ Undo \/ Redo

SpecLine == InitLine /\ [][NextLine]_vars

(***************************************************************************)
(* insert_str handed links by its caller (SpecIds).  insert_links is a     *)
(* public parameter: the caller chooses the ids of the links it passes.    *)
(***************************************************************************)
\* the ids of the links a caller passes to insert_str
GivenLinkIds == {0, 1}

InitIds ==
    /\ \E c \in InitConfigs : ta = TextAreaNew(c.lines, c.links, DefaultMaxCol)
    /\ trail = Constructed(ta)
    /\ budget = MaxOps
    /\ ed = EdIdle

InsertStrLinks ==
    \E x \in InsertTexts : \E ids \in SUBSET GivenLinkIds : \E o \in Orders(ta) :
        Step("insert_str", x, insert_str(ta, x, ids, o))

NextIds == MoveCursor \/ InsertStrLinks \/ Undo \/ Redo

SpecIds == InitIds /\ [][NextIds]_vars

(***************************************************************************)
(* Copying, joining lines and pasting (SpecCopy): the buffer may change    *)
(* between the copy and the paste.                                         *)
(***************************************************************************)
InitCopy ==
    /\ \E c \in InitConfigs : ta = TextAreaNew(c.lines, c.links, DefaultMaxCol)
    /\ trail = Constructed(ta)
    /\ budget = MaxCopyOps
    /\ ed = EdIdle

NextCopy == MoveCursor \/ StartSelection \/ Copy \/ DeleteNewline \/ Paste

SpecCopy == InitCopy /\ [][NextCopy]_vars

(***************************************************************************)
(* Splitting a line after an undo (SpecSplit): the undo leaves the edited  *)
(* flag of a link set, the split comes third.                              *)
(***************************************************************************)
NextSplit == MoveCursor \/ InsertNewline \/ Undo

SpecSplit == InitCopy /\ [][NextSplit]_vars

(***************************************************************************)
(* EditKind applied on its own (SpecK).  The inputs are the edits the      *)
(* mutations record: a mutation taken on a freshly constructed text area   *)
(* that records one edit e gives the input (e.kind, e.before, e.after) on  *)
(* the buffer before the mutation, which is what a redo applies, and the   *)
(* input (e.kind.invert(), e.after, e.before) on the buffer after the      *)
(* mutation, which is what an undo applies.                                *)
(***************************************************************************)
KConfigs ==
    { [lines |-> TextAreaNew(c.lines, c.links, DefaultMaxCol).lines, links |-> c.links] :
        c \in InitConfigs }
    \cup { [lines |-> << <<"a", WideChar>>, <<>>, <<"b">> >>, links |-> <<>>] }

KTexts == InsertTexts \cup { << <<>>, <<>> >>, << <<"a">>, <<WideChar>>, <<"b">> >> }

\* the text areas a mutation is taken on: a cursor position and possibly a selection
KSources ==
    UNION { LET t0 == TextAreaNew(c.lines, c.links, DefaultMaxCol)
            IN UNION { { move_cursor_jump(t0, r, col) } \cup
                       { move_cursor_jump(start_selection(move_cursor_jump(t0, r2, c2)), r, col) :
                            <<r2, c2>> \in {<<0, 0>>, <<0, 1>>} } :
                       <<r, col>> \in {<<a, b>> \in Rows(t0) \X (0..MaxLineLen) : b \in Cols(t0, a)} }
          : c \in KConfigs }

\* the results of the mutations on t
KMutations(t) ==
    UNION { {insert_char(t, c, o) : c \in Chars}
            \cup {insert_str(t, x, {}, o) : x \in KTexts}
            \cup {delete_str(t, n, o) : n \in 1..MaxDelete}
            \cup {delete_line(t, b, o) : b \in BOOLEAN}
            \cup {insert_newline(t, o), delete_char(t, o), delete_next_char(t, o),
                  delete_line_by_head(t, o), delete_line_by_end(t, o), cut(t, o)}
          : o \in Orders(t) }

KInput(lines, links, kind, before, after) ==
    [phase |-> "input", lines0 |-> lines, kind |-> kind, before |-> before, after |-> after,
     lines |-> lines, links |-> links, panicked |-> FALSE]

KInputs ==
    UNION { UNION { LET e == post.history.edits[1]
                    IN { KInput(t.lines, t.links, e.kind, e.before, e.after),
                         KInput(post.lines, post.links, Invert(e.kind), e.after, e.before) }
                  : post \in {m \in KMutations(t) : ~Halted(m) /\ Len(m.history.edits) = 1} }
          : t \in KSources }

InitK ==
    /\ ta = TextAreaNew(<<>>, <<>>, DefaultMaxCol)
    /\ trail = Constructed(ta)
    /\ budget = 0
    /\ ed \in KInputs

\* k.apply(lines, links, before, after)
KApply ==
    /\ ed.phase = "input"
    /\ LET r == Apply(ed.kind, ed.lines, ed.links, ed.before, ed.after)
       IN ed' = [ed EXCEPT !.phase = "applied", !.lines = r.lines, !.links = r.links,
                           !.panicked = r.panicked]
    /\ UNCHANGED <<ta, trail, budget>>

\* k.invert().apply(lines, links, after, before)
KInvert ==
    /\ ed.phase = "applied"
    /\ ~ed.panicked
    /\ LET r == Apply(Invert(ed.kind), ed.lines, ed.links, ed.after, ed.before)
       IN ed' = [ed EXCEPT !.phase = "inverted", !.lines = r.lines, !.links = r.links,
                           !.panicked = r.panicked]
    /\ UNCHANGED <<ta, trail, budget>>

NextK == KApply \/ KInvert

SpecK == InitK /\ [][NextK]_vars

(***************************************************************************)
(* The link shifts applied on their own (SpecShift).  The inputs are a     *)
(* link store of two links, each on any row and at any column of a small   *)
(* grid, one column wide, with either flag set or clear, and the two       *)
(* positions the shift is called with.                                     *)
(***************************************************************************)
ShiftIds == {0, 1}

ShiftLinks ==
    { [id \in ShiftIds |-> [NewLink(id, f[id].row, f[id].col, f[id].col + 1)
                                EXCEPT !.edited = f[id].edited, !.deleted = f[id].deleted]] :
        f \in [ShiftIds -> [row : 0..MaxShiftRow, col : 0..MaxShiftCol,
                            edited : BOOLEAN, deleted : BOOLEAN]] }

\* an input of a shift: the function, the link store (kept in links0) and the arguments
ShiftInput(fn, L, start, end) ==
    [phase |-> "input", fn |-> fn, links0 |-> L, links |-> L, start |-> start, end |-> end,
     max_col |-> DefaultMaxCol, shifted_to_prevline |-> 0, returned |-> {}, panicked |-> FALSE]

\* the inputs of fn, a function of a start and an end position
ShiftInputs(fn) ==
    { ShiftInput(fn, L, <<r, c>>, <<r2, c2>>) :
        L \in ShiftLinks, r \in 0..MaxShiftRow, c \in 0..MaxShiftCol,
        r2 \in 0..(MaxShiftRow + 1), c2 \in 0..(MaxShiftCol + 1) }

\* the inputs of shift_links_after_delete(start, end, shifted_to_prevline) in a text area
\* whose max_col is one of widths
ShiftDeleteInputs(widths) ==
    { [ShiftInput("after_delete", L, <<r, c>>, <<r2, c2>>)
         EXCEPT !.max_col = m, !.shifted_to_prevline = d] :
        L \in ShiftLinks, r \in 0..MaxShiftRow, c \in 0..MaxShiftCol,
        r2 \in 0..MaxShiftRow, c2 \in 0..MaxShiftCol,
        m \in widths, d \in {0, 1} }

\* shift_links_after_insert(start, end) is called with end on the row of start or below it,
\* delete_links_in_range(start, end) with the two ends of a range in their order,
\* shift_links_after_delete(start, end, shifted_to_prevline) with end on the row of start or
\* above it
InitShift ==
    /\ ta = TextAreaNew(<<>>, <<>>, DefaultMaxCol)
    /\ trail = Constructed(ta)
    /\ budget = 0
    /\ \/ ed \in {x \in ShiftInputs("after_insert") : x.end[1] >= x.start[1]}
       \/ ed \in {x \in ShiftInputs("delete_links_in_range") :
                     /\ x.end[1] <= MaxShiftRow
                     /\ \/ x.end[1] > x.start[1]
                        \/ (x.end[1] = x.start[1] /\ x.end[2] >= x.start[2])}
       \/ ed \in {x \in ShiftDeleteInputs({MaxShiftCol, MaxShiftCol + 1}) :
                     x.end[1] <= x.start[1]}

\* self.shift_links_after_insert(start, end)
ShiftAfterInsert ==
    /\ ed.phase = "input"
    /\ ed.fn = "after_insert"
    /\ ed' = [ed EXCEPT !.phase = "shifted",
                         !.links = shift_links_after_insert([ta EXCEPT !.links = ed.links],
                                                            ed.start, ed.end).links]
    /\ UNCHANGED <<ta, trail, budget>>

\* self.delete_links_in_range(start, end); returned holds the ids of the snapshots
ShiftDeleteLinksInRange ==
    /\ ed.phase = "input"
    /\ ed.fn = "delete_links_in_range"
    /\ \E o \in Orders([links |-> ed.links]) :
          LET d == delete_links_in_range([ta EXCEPT !.links = ed.links], ed.start, ed.end, o)
          IN ed' = [ed EXCEPT !.phase = "shifted",
                              !.links = d.t.links,
                              !.returned = SnapshotIds(d.deleted),
                              !.panicked = d.t.panicked]
    /\ UNCHANGED <<ta, trail, budget>>

\* self.shift_links_after_delete(start, end, shifted_to_prevline)
ShiftAfterDelete ==
    /\ ed.phase = "input"
    /\ ed.fn = "after_delete"
    /\ LET t == shift_links_after_delete([ta EXCEPT !.links = ed.links, !.max_col = ed.max_col],
                                         ed.start, ed.end, ed.shifted_to_prevline)
       IN ed' = [ed EXCEPT !.phase = "shifted", !.links = t.links, !.panicked = t.panicked]
    /\ UNCHANGED <<ta, trail, budget>>

NextShift == ShiftAfterInsert \/ ShiftDeleteLinksInRange \/ ShiftAfterDelete

SpecShift == InitShift /\ [][NextShift]_vars

(***************************************************************************)
(* Claims about EditKind (SpecK)                                           *)
(***************************************************************************)
\* C8: for every EditKind k and every buffer and positions on which k applies, k.apply(lines,
\* links, before, after) followed by k.invert().apply(lines, links, after, before) leaves
\* lines identical to the original.
C8_InvertRoundTrip ==
    (ed.phase = "inverted" /\ ~ed.panicked) => ed.lines = ed.lines0

\* a DeleteLine edit as delete_line records it has been applied and inverted without a panic
C8_DeleteLineInverted ==
    /\ ed.phase = "inverted"
    /\ ~ed.panicked
    /\ ed.kind.tag = "DeleteLine"
    /\ ed.before.row = ed.after.row + 1

\* the round trip holds for every kind other than InsertLine and DeleteLine
C8_OtherKindsRoundTrip ==
    (ed.phase = "inverted" /\ ~ed.panicked /\ ed.kind.tag \notin {"InsertLine", "DeleteLine"})
        => ed.lines = ed.lines0

\* the part of line in front of the byte offset o, and the part from o on
BytePrefix(line, o) == Prefix(line, CharsBefore(line, o))

ByteSuffix(line, o) == Suffix(line, CharsBefore(line, o))

\* C9: InsertChunk of a chunk c of n >= 2 lines at (row, byte offset o) yields the rows before
\* row unchanged, then prefix(lines[row], o) + c[0], then c[1..n-2] verbatim, then
\* c[n-1] + suffix(lines[row], o), then the rows after row unchanged.
C9_InsertChunkResult ==
    (ed.phase = "applied" /\ ed.kind.tag = "InsertChunk" /\ ~ed.panicked) =>
        LET c == ed.kind.text
            n == Len(c)
            row == ed.before.row
            o == ed.before.offset
            old == ed.lines0
        IN /\ n >= 2
           /\ ed.lines = SubSeq(old, 1, row)
                         \o << BytePrefix(old[row + 1], o) \o c[1] >>
                         \o SubSeq(c, 2, n - 1)
                         \o << c[n] \o ByteSuffix(old[row + 1], o) >>
                         \o SubSeq(old, row + 2, Len(old))

\* a chunk of three lines has been inserted inside a line, between other rows
C9_ChunkInsertedMidLine ==
    /\ ed.phase = "applied"
    /\ ed.kind.tag = "InsertChunk"
    /\ ~ed.panicked
    /\ Len(ed.kind.text) = 3
    /\ ed.before.offset > 0
    /\ ed.before.offset < StrLen(ed.lines0[ed.before.row + 1])
    /\ ed.before.row + 1 < Len(ed.lines0)

\* a chunk of empty strings has been inserted into a one-line empty buffer
C9_EmptyChunkInEmptyBuffer ==
    /\ ed.phase = "applied"
    /\ ed.kind.tag = "InsertChunk"
    /\ ~ed.panicked
    /\ ed.lines0 = << <<>> >>
    /\ ed.kind.text = << <<>>, <<>> >>

(***************************************************************************)
(* Reading the trail.  Moves of the cursor and of the selection change     *)
(* neither lines, links nor history, so those three are, before the        *)
(* operation of entry i, what entry i - 1 left.                            *)
(***************************************************************************)
Post(i) == trail[i].post

LastEdit(t) == t.history.edits[t.history.index]

MutationOps ==
    {"insert_char", "insert_str", "insert_newline", "delete_char", "delete_next_char",
     "delete_newline", "delete_str", "delete_line", "delete_word", "delete_next_word",
     "delete_line_by_head", "delete_line_by_end", "cut", "paste"}

\* entry i is a mutation that has recorded exactly one edit
RecordedOne(i) ==
    /\ i >= 2
    /\ i <= Len(trail)
    /\ trail[i].op \in MutationOps
    /\ ~Halted(Post(i))
    /\ Post(i).history.max_items > 0
    /\ Post(i).history.index = Post(i - 1).history.index + 1
    /\ Post(i).history.index = Len(Post(i).history.edits)
    /\ Len(Post(i - 1).history.edits) < Post(i).history.max_items

(***************************************************************************)
(* Claims about History (SpecH)                                            *)
(***************************************************************************)
\* C3: for a History of capacity N >= 0, after every sequence of push, undo and redo,
\* 0 <= index <= len(edits) <= N; with N = 0 every push is a no-op, the history stays empty
\* and every undo and redo returns None.
C3_HistoryBounds ==
    LET h == ta.history
    IN /\ 0 <= h.index
       /\ h.index <= Len(h.edits)
       /\ Len(h.edits) <= h.max_items
       /\ h.max_items = 0 =>
             /\ h.edits = <<>>
             /\ \A i \in 2..Len(trail) :
                   /\ Post(i).history = Post(i - 1).history
                   /\ trail[i].op \in {"undo", "redo"} => Post(i).ret = FALSE

\* a history of capacity MaxCap is full after more than MaxCap pushes
C3_FullAfterEviction ==
    /\ ta.history.max_items = MaxCap
    /\ Len(ta.history.edits) = MaxCap
    /\ Cardinality({i \in 2..Len(trail) : trail[i].op = "insert_char"}) > MaxCap

\* with capacity 0 a push, an undo and a redo have been taken
C3_ZeroCapacityUsed ==
    /\ ta.history.max_items = 0
    /\ \A o \in {"insert_char", "undo", "redo"} : \E i \in 2..Len(trail) : trail[i].op = o

\* entry i is a push onto a history of capacity > 0
IsPush(i) == trail[i].op = "insert_char" /\ Post(i).history.max_items > 0 /\ ~Halted(Post(i))

\* C4: after any push (capacity > 0) the history has no redo tail, in particular after undos
\* followed by a push; a redo taken immediately after a push returns false and changes nothing.
C4_RedoAfterPushIsNone ==
    \A i \in 2..Len(trail) :
        IsPush(i) =>
            /\ Post(i).history.index = Len(Post(i).history.edits)
            /\ (i < Len(trail) /\ trail[i + 1].op = "redo") =>
                  /\ Post(i + 1).ret = FALSE
                  /\ Post(i + 1) = Ret(Post(i), FALSE)

\* an undo that took an edit back, then a push, then a redo
C4_UndoPushRedo ==
    \E i \in 2..(Len(trail) - 2) :
        /\ trail[i].op = "undo"
        /\ Post(i).ret
        /\ IsPush(i + 1)
        /\ trail[i + 2].op = "redo"

\* the edit that the push of entry i put into the history
PushedEdit(i) == LastEdit(Post(i))

\* C5: from an empty History of capacity N >= 1, after N + 1 pushes the history holds exactly
\* the N most recent edits in order; N consecutive undos then succeed, the (N + 1)-th returns
\* None, and the first pushed edit is never undone.
C5_CapacityEviction ==
    LET N == ta.history.max_items
        n == Len(trail)
    IN (N >= 1 /\ n >= N + 2 /\ \A i \in 2..(N + 2) : IsPush(i)) =>
          /\ Post(N + 2).history.edits = [j \in 1..N |-> PushedEdit(j + 2)]
          /\ \A j \in 1..(n - (N + 2)) :
                (\A m \in 1..j : trail[N + 2 + m].op = "undo") =>
                    /\ ~Post(N + 2 + j).panicked
                    /\ j <= N => Post(N + 2 + j).ret = TRUE
                    /\ j >= N => Post(N + 2 + j).lines = Post(2).lines
                    /\ j > N => Post(N + 2 + j).ret = FALSE

\* N + 1 pushes onto a history of capacity N = MaxCap followed by N + 1 undos
C5_EvictedThenUndoneToTheEnd ==
    LET N == ta.history.max_items
    IN /\ N = MaxCap
       /\ N >= 1
       /\ Len(trail) = 2 * N + 3
       /\ \A i \in 2..(N + 2) : IsPush(i)
       /\ \A i \in (N + 3)..(2 * N + 3) : trail[i].op = "undo"

(***************************************************************************)
(* Claims about undo and redo of the text area                             *)
(***************************************************************************)
\* C1: after any single mutation that was recorded in history, one undo restores lines to
\* the content it had immediately before that mutation.
C1_UndoRestoresLines ==
    \A i \in 2..(Len(trail) - 1) :
        (RecordedOne(i) /\ trail[i + 1].op = "undo" /\ ~Halted(Post(i + 1))) =>
            /\ Post(i + 1).ret = TRUE
            /\ Post(i + 1).lines = Post(i - 1).lines

\* C1 for the mutations other than delete_line
C1_UndoRestoresLinesButDeleteLine ==
    \A i \in 2..(Len(trail) - 1) :
        (RecordedOne(i) /\ trail[i].op # "delete_line" /\ trail[i + 1].op = "undo"
         /\ ~Halted(Post(i + 1))) =>
            /\ Post(i + 1).ret = TRUE
            /\ Post(i + 1).lines = Post(i - 1).lines

\* the range of rows and columns that the edit of a deletion says was deleted
DeletedFrom(e) == IF e.kind.tag = "DeleteLine" THEN <<e.after.row, 0>> ELSE <<e.after.row, e.after.col>>

DeletedTo(e) == IF e.kind.tag = "DeleteLine" THEN <<e.after.row, USIZE_MAX>> ELSE <<e.before.row, e.before.col>>

\* the deleted range fully contains the link l
FullyContains(e, l) ==
    LET from == DeletedFrom(e)
        to == DeletedTo(e)
    IN /\ from[1] <= l.row
       /\ l.row <= to[1]
       /\ l.row = from[1] => from[2] <= l.start_col
       /\ l.row = to[1] => l.end_col < to[2]

\* C2: deleting a range (selection delete, cut, delete_piece, delete_line) that fully contains
\* a live link sets the link's deleted flag and keeps its record, and an undo immediately
\* afterwards makes the link live again with the row, start_col and end_col it had.
C2_DeleteThenUndoRestoresLink ==
    \A i \in 2..Len(trail) :
        (RecordedOne(i) /\ LastEdit(Post(i)).kind.tag \in {"DeleteStr", "DeleteChunk", "DeleteLine"}
         /\ trail[i].op # "delete_str") =>
            \A id \in DOMAIN Post(i - 1).links :
                LET l0 == Post(i - 1).links[id]
                IN (~l0.deleted /\ FullyContains(LastEdit(Post(i)), l0)) =>
                      /\ id \in DOMAIN Post(i).links
                      /\ Post(i).links[id].deleted
                      /\ (i < Len(trail) /\ trail[i + 1].op = "undo" /\ ~Halted(Post(i + 1))) =>
                            LET l2 == Post(i + 1).links[id]
                            IN /\ ~l2.deleted
                               /\ l2.row = l0.row
                               /\ l2.start_col = l0.start_col
                               /\ l2.end_col = l0.end_col

\* C7: for every recorded mutation, undo followed by redo brings lines and cursor back to the
\* values they had right after the mutation.
C7_UndoRedoRestores ==
    \A i \in 2..(Len(trail) - 2) :
        (RecordedOne(i) /\ trail[i + 1].op = "undo" /\ Post(i + 1).ret /\ ~Halted(Post(i + 1))
         /\ trail[i + 2].op = "redo") =>
            /\ ~Post(i + 2).panicked
            /\ Post(i + 2).ret = TRUE
            /\ Post(i + 2).lines = Post(i).lines
            /\ Post(i + 2).cursor = Post(i).cursor

\* C7 for lines alone, when the redo does not panic
C7_UndoRedoRestoresLines ==
    \A i \in 2..(Len(trail) - 2) :
        (RecordedOne(i) /\ trail[i + 1].op = "undo" /\ Post(i + 1).ret /\ ~Halted(Post(i + 1))
         /\ trail[i + 2].op = "redo" /\ ~Halted(Post(i + 2))) =>
            Post(i + 2).lines = Post(i).lines

\* the step is the operation name taken on ta
Took(name) == Len(trail') = Len(trail) + 1 /\ trail'[Len(trail')].op = name

\* C6: undo when no edit is left to undo (index = 0) and redo when no edit is ahead
\* (index = len) return false and leave lines, every link, cursor, selection and the history
\* unchanged.
C6_NothingToUndoOrRedo ==
    [][ ((Took("undo") /\ ta.history.index = 0)
         \/ (Took("redo") /\ ta.history.index = Len(ta.history.edits))) =>
            /\ ta'.ret = FALSE
            /\ ~ta'.panicked
            /\ ta'.lines = ta.lines
            /\ ta'.links = ta.links
            /\ ta'.cursor = ta.cursor
            /\ ta'.selection_start = ta.selection_start
            /\ ta'.history = ta.history ]_vars

\* an undo and then a redo have found nothing to do, with a selection held over a buffer
\* with a link
C6_NoOpUndoThenRedo ==
    /\ Len(trail) = 3
    /\ trail[2].op = "undo"
    /\ trail[3].op = "redo"
    /\ Post(2).ret = FALSE
    /\ ta.ret = FALSE
    /\ ta.history.index = 0
    /\ selection_range(ta) # None
    /\ LiveIds(ta) # {}

(***************************************************************************)
(* Claims about links                                                      *)
(***************************************************************************)
\* C10: inserting k characters without a newline (insert_char, or insert_str or paste of a
\* single-line string) at a column strictly before a live link's start_col on the link's row
\* increases start_col and end_col of the link by exactly k and leaves its row unchanged.
C10_InsertBeforeLinkShiftsByK ==
    \A i \in 2..Len(trail) :
        (RecordedOne(i) /\ trail[i].op \in {"insert_char", "insert_str", "paste"}
         /\ LastEdit(Post(i)).kind.tag \in {"InsertChar", "InsertStr"}) =>
            LET e == LastEdit(Post(i))
                k == CharCount(e.kind.text[1])
            IN \A id \in LiveIds(Post(i - 1)) :
                  LET l0 == Post(i - 1).links[id]
                      l1 == Post(i).links[id]
                  IN (l0.row = e.before.row /\ e.before.col < l0.start_col) =>
                        /\ l1.row = l0.row
                        /\ l1.start_col = l0.start_col + k
                        /\ l1.end_col = l0.end_col + k

\* C10 for insert_char alone
C10_InsertCharBeforeLinkShiftsByOne ==
    \A i \in 2..Len(trail) :
        (RecordedOne(i) /\ trail[i].op = "insert_char"
         /\ LastEdit(Post(i)).kind.tag = "InsertChar") =>
            LET e == LastEdit(Post(i))
            IN \A id \in LiveIds(Post(i - 1)) :
                  LET l0 == Post(i - 1).links[id]
                      l1 == Post(i).links[id]
                  IN (l0.row = e.before.row /\ e.before.col < l0.start_col) =>
                        /\ l1.row = l0.row
                        /\ l1.start_col = l0.start_col + 1
                        /\ l1.end_col = l0.end_col + 1

\* the operations C11 names; a selection is deleted through delete_char and cut
DeleteBeforeOps ==
    {"delete_char", "delete_next_char", "delete_word", "delete_line_by_head", "cut", "delete_str"}

\* the edit e records the removal of characters of one row: the columns e.after.col up to, not
\* including, e.before.col of the row e.after.row
RemovedInRow(e) == e.kind.tag \in {"DeleteChar", "DeleteStr"} /\ e.before.row = e.after.row

\* the characters removed by e lie on the row of the link l, all of them before its start_col
RemovedBefore(e, l) == RemovedInRow(e) /\ l.row = e.after.row /\ e.before.col <= l.start_col

\* the link id after entry i is the link it was before, moved k columns to the left
ShiftedLeft(i, id, k) ==
    LET l0 == Post(i - 1).links[id]
        l1 == Post(i).links[id]
    IN /\ l1.row = l0.row
       /\ l1.start_col = l0.start_col - k
       /\ l1.end_col = l0.end_col - k

\* C11: every delete operation (delete_char, delete_next_char, delete_word,
\* delete_line_by_head, same-row selection delete or cut, delete_str) that removes k characters
\* lying entirely before a live link's start_col on the link's row, without touching the
\* link, decreases the link's start_col and end_col by exactly k and leaves its row unchanged.
C11_DeleteBeforeLinkShiftsByK ==
    \A i \in 2..Len(trail) :
        (RecordedOne(i) /\ trail[i].op \in DeleteBeforeOps) =>
            LET e == LastEdit(Post(i))
            IN \A id \in LiveIds(Post(i - 1)) :
                  RemovedBefore(e, Post(i - 1).links[id]) =>
                      ShiftedLeft(i, id, CharCount(e.kind.text[1]))

\* C11 for the operations other than delete_str, when the removed characters end at least one
\* column in front of the link
C11_DeleteWellBeforeLinkShiftsByK ==
    \A i \in 2..Len(trail) :
        (RecordedOne(i) /\ trail[i].op \in DeleteBeforeOps \ {"delete_str"}) =>
            LET e == LastEdit(Post(i))
            IN \A id \in LiveIds(Post(i - 1)) :
                  LET l0 == Post(i - 1).links[id]
                  IN (RemovedBefore(e, l0) /\ e.before.col < l0.start_col) =>
                        ShiftedLeft(i, id, CharCount(e.kind.text[1]))

\* C11 for the operations other than delete_str
C11_OtherDeletesBeforeLinkShiftByK ==
    \A i \in 2..Len(trail) :
        (RecordedOne(i) /\ trail[i].op \in DeleteBeforeOps \ {"delete_str"}) =>
            LET e == LastEdit(Post(i))
            IN \A id \in LiveIds(Post(i - 1)) :
                  RemovedBefore(e, Post(i - 1).links[id]) =>
                      ShiftedLeft(i, id, CharCount(e.kind.text[1]))

(***************************************************************************)
(* Links on rows an edit leaves alone                                      *)
(***************************************************************************)
\* the inserts and deletes: every recorded mutation but paste
InsertDeleteOps == MutationOps \ {"paste"}

\* the rows between the two ends of the edit e
EditRows(e) ==
    IF e.before.row <= e.after.row THEN e.before.row..e.after.row ELSE e.after.row..e.before.row

\* the link id has the same row and columns after entry i as before it
SamePlace(i, id) ==
    LET l0 == Post(i - 1).links[id]
        l1 == Post(i).links[id]
    IN l1.row = l0.row /\ l1.start_col = l0.start_col /\ l1.end_col = l0.end_col

\* l is on a line of the buffer, and the edit of entry i neither reaches the row of l nor
\* changes the number of the lines in front of it: it lies below the row of l, or the buffer
\* has as many lines as before
LeavesRowAlone(i, l) ==
    LET e == LastEdit(Post(i))
    IN /\ l.row < Len(Post(i - 1).lines)
       /\ l.row \notin EditRows(e)
       /\ \/ \A r \in EditRows(e) : r > l.row
          \/ Len(Post(i).lines) = Len(Post(i - 1).lines)

FreezingOps == InsertDeleteOps \cup {"copy"}

\* the link id is, after entry i, as entry i - 1 left it: row, columns and deleted flag
SameLink(i, id) ==
    LET l0 == Post(i - 1).links[id]
        l1 == Post(i).links[id]
    IN /\ l1.row = l0.row
       /\ l1.start_col = l0.start_col
       /\ l1.end_col = l0.end_col
       /\ l1.deleted = l0.deleted

\* C13: a soft-deleted link is frozen: while its deleted flag is set, no insert, newline,
\* delete, cut or range-extraction operation changes its row, start_col, end_col or deleted
\* flag.
C13_SoftDeletedLinkFrozen ==
    \A i \in 2..Len(trail) :
        (trail[i].op \in FreezingOps /\ ~Halted(Post(i))) =>
            \A id \in DOMAIN Post(i - 1).links :
                Post(i - 1).links[id].deleted =>
                    (id \in DOMAIN Post(i).links /\ SameLink(i, id))

\* C13 for every operation but insert_newline: the columns and the row of a soft-deleted link
C13_SoftDeletedLinkKeepsPlace ==
    \A i \in 2..Len(trail) :
        (trail[i].op \in FreezingOps \ {"insert_newline"} /\ ~Halted(Post(i))) =>
            \A id \in DOMAIN Post(i - 1).links :
                Post(i - 1).links[id].deleted =>
                    (id \in DOMAIN Post(i).links /\ SamePlace(i, id))

\* C13 for the deleted flag alone
C13_SoftDeletedLinkStaysDeleted ==
    \A i \in 2..Len(trail) :
        (trail[i].op \in FreezingOps /\ ~Halted(Post(i))) =>
            \A id \in DOMAIN Post(i - 1).links :
                Post(i - 1).links[id].deleted =>
                    (id \in DOMAIN Post(i).links /\ Post(i).links[id].deleted)

(***************************************************************************)
(* A mutation and its undo                                                 *)
(***************************************************************************)
\* entry i is a recorded mutation and entry i + 1 is the undo that takes it back
UndoneAt(i) ==
    /\ RecordedOne(i)
    /\ i + 1 <= Len(trail)
    /\ trail[i + 1].op = "undo"
    /\ ~Halted(Post(i + 1))

\* the link id is, after entry j, as entry i left it: row, columns and deleted flag
SameLinkAsAt(i, j, id) ==
    /\ id \in DOMAIN Post(j).links
    /\ Post(j).links[id].row = Post(i).links[id].row
    /\ Post(j).links[id].start_col = Post(i).links[id].start_col
    /\ Post(j).links[id].end_col = Post(i).links[id].end_col
    /\ Post(j).links[id].deleted = Post(i).links[id].deleted

\* C14: any single recorded mutation (insert, newline, delete, cut, paste) followed by undo()
\* leaves every link that existed before the mutation with the same (row, start_col, end_col,
\* deleted) as before the mutation.
C14_MutationThenUndoRestoresLinks ==
    \A i \in 2..Len(trail) :
        UndoneAt(i) => \A id \in DOMAIN Post(i - 1).links : SameLinkAsAt(i - 1, i + 1, id)

\* C14 for one operation at a time
C14_For(ops) ==
    \A i \in 2..Len(trail) :
        (UndoneAt(i) /\ trail[i].op \in ops) =>
            \A id \in DOMAIN Post(i - 1).links : SameLinkAsAt(i - 1, i + 1, id)

\* C14 for insert_char and insert_newline
C14_InsertCharOrNewlineThenUndo == C14_For({"insert_char", "insert_newline"})

(***************************************************************************)
(* Invariants of the link store, the buffer and the cursor                 *)
(***************************************************************************)
\* C15: the edited flag is transient: after every public operation (insert, delete, cut,
\* paste, undo, redo) has returned, every link in the store has edited == false.
C15_EditedFlagTransient ==
    ~Halted(ta) => \A id \in DOMAIN ta.links : ~ta.links[id].edited

\* C15 as long as nothing has been undone, redone or pasted
C15_EditedClearWithoutReplay ==
    (~Halted(ta) /\ \A i \in 1..Len(trail) : trail[i].op \notin {"undo", "redo", "paste"}) =>
        \A id \in DOMAIN ta.links : ~ta.links[id].edited

\* C16: after any sequence of public operations, every link in the store (live or
\* soft-deleted) satisfies start_col <= end_col.
C16_LinkColumnsOrdered ==
    ~Halted(ta) => \A id \in DOMAIN ta.links : ta.links[id].start_col <= ta.links[id].end_col

\* an undo has moved a link of two columns to the front of its row, where the saturating
\* subtraction leaves it with start_col = end_col = 0
C16_LinkCollapsedByUndo ==
    /\ Len(trail) = 3
    /\ trail[3].op = "undo"
    /\ ~Halted(ta)
    /\ \E id \in DOMAIN Post(1).links :
          /\ Post(1).links[id].start_col < Post(1).links[id].end_col
          /\ ta.links[id].start_col = 0
          /\ ta.links[id].end_col = 0

\* C17: after any sequence of public operations (including delete_str across lines,
\* delete_line, clear_lines, undo and redo), every link with deleted == false has
\* row < number of buffer lines.
C17_LiveLinkRowInBuffer ==
    ~Halted(ta) => \A id \in LiveIds(ta) : ta.links[id].row < Len(ta.lines)

\* C17 while no link is soft-deleted and neither delete_str, clear_lines, undo nor redo has run
C17_LiveLinkRowInBufferOtherOps ==
    (/\ ~Halted(ta)
     /\ \A i \in 1..Len(trail) :
           /\ trail[i].op \notin {"delete_str", "clear_lines", "undo", "redo"}
           /\ i < Len(trail) => \A id \in DOMAIN Post(i).links : ~Post(i).links[id].deleted) =>
        \A id \in LiveIds(ta) : ta.links[id].row < Len(ta.lines)

\* C18: the buffer is never empty: after construction (even from an empty line vector) and
\* after every public operation, including delete_line on the only line, cut of the whole
\* text, undo and redo, lines() contains at least one line.
C18_BufferNeverEmpty ==
    /\ ~ta.panicked => Len(ta.lines) >= 1
    /\ \A i \in 1..Len(trail) : ~Post(i).panicked => Len(Post(i).lines) >= 1

\* delete_line on the only line of the buffer, then undo
C18_OnlyLineDeletedThenUndone ==
    /\ Len(trail) = 3
    /\ Len(Post(1).lines) = 1
    /\ trail[2].op = "delete_line"
    /\ Post(2).ret
    /\ trail[3].op = "undo"
    /\ ta.ret
    /\ ~Halted(ta)

\* the cursor of t is on a line of the buffer, at a column of that line or at its end
CursorInBuffer(t) ==
    /\ t.cursor[1] < Len(t.lines)
    /\ t.cursor[2] <= CharCount(t.lines[t.cursor[1] + 1])

\* C19: after every public operation (each mutation, undo, redo, clear_lines), the cursor
\* (r, c) satisfies r < number of lines and c <= number of characters of line r.
C19_CursorInBuffer ==
    \A i \in 1..Len(trail) : ~Halted(Post(i)) => CursorInBuffer(Post(i))

\* C19 for the operations other than insert_str, delete_line, paste, undo and clear_lines
C19_CursorInBufferOtherOps ==
    (\A i \in 1..Len(trail) :
        trail[i].op \notin {"insert_str", "delete_line", "paste", "undo", "clear_lines"}) =>
            \A i \in 1..Len(trail) : ~Halted(Post(i)) => CursorInBuffer(Post(i))

(***************************************************************************)
(* Cut, then paste                                                         *)
(***************************************************************************)
\* the snapshot s of the clipboard that entry i pastes is of a link that is soft-deleted
PastesDeleted(i, s) ==
    /\ s.id \in DOMAIN Post(i - 1).links
    /\ Post(i - 1).links[s.id].deleted

\* the link of the snapshot s is live after entry i, k = s.row rows below the place pos of
\* the paste: at the columns of s moved by pos.col when k = 0, at the columns of s when k > 0
MovedTo(i, s, pos) ==
    LET l == Post(i).links[s.id]
    IN /\ ~l.deleted
       /\ l.row = pos.row + s.row
       /\ l.start_col = IF s.row = 0 THEN pos.col + s.start_col ELSE s.start_col
       /\ l.end_col = IF s.row = 0 THEN pos.col + s.end_col ELSE s.end_col

\* C20: cut-then-paste is a move: when the clipboard holds a snapshot of link L and L is
\* soft-deleted, paste at cursor (r, c) creates no new link and makes L live at row r + k,
\* where k is the snapshot's row within the payload, with columns c + relative columns when
\* k = 0 and the snapshot's own columns when k > 0.
C20_CutThenPasteMovesLink ==
    \A i \in 2..Len(trail) :
        (RecordedOne(i) /\ trail[i].op = "paste") =>
            LET snaps == Post(i - 1).yank.links
                pos == LastEdit(Post(i)).before
            IN /\ (\A n \in 1..Len(snaps) : PastesDeleted(i, snaps[n])) =>
                      DOMAIN Post(i).links = DOMAIN Post(i - 1).links
               /\ \A n \in 1..Len(snaps) :
                      PastesDeleted(i, snaps[n]) => MovedTo(i, snaps[n], pos)

\* C20 for a snapshot on the first line of the payload (k = 0)
C20_CutThenPasteMovesLinkOfFirstLine ==
    \A i \in 2..Len(trail) :
        (RecordedOne(i) /\ trail[i].op = "paste") =>
            LET snaps == Post(i - 1).yank.links
                pos == LastEdit(Post(i)).before
            IN /\ (\A n \in 1..Len(snaps) : PastesDeleted(i, snaps[n])) =>
                      DOMAIN Post(i).links = DOMAIN Post(i - 1).links
               /\ \A n \in 1..Len(snaps) :
                      (PastesDeleted(i, snaps[n]) /\ snaps[n].row = 0) =>
                          MovedTo(i, snaps[n], pos)

(***************************************************************************)
(* Copy, then paste                                                        *)
(***************************************************************************)
\* the snapshot s of the clipboard that entry i pastes is of a link that is live
PastesLive(i, s) ==
    /\ s.id \in DOMAIN Post(i - 1).links
    /\ ~Post(i - 1).links[s.id].deleted

\* the links entry i has added to the store
NewIds(i) == DOMAIN Post(i).links \ DOMAIN Post(i - 1).links

\* the link n is a live copy of the link of the snapshot s over the pasted text: s.row rows
\* below the place pos of the paste, at the columns of s moved by pos.col on the first row of
\* the payload and at the columns of s on a later row
CopyOf(i, n, s, pos) ==
    LET l == Post(i).links[n]
    IN /\ ~l.deleted
       /\ l.row = pos.row + s.row
       /\ l.start_col = IF s.row = 0 THEN pos.col + s.start_col ELSE s.start_col
       /\ l.end_col = IF s.row = 0 THEN pos.col + s.end_col ELSE s.end_col
       /\ n \in DOMAIN Post(i).copied_link_ids
       /\ Post(i).copied_link_ids[n] = s.id

\* C21: copy-then-paste duplicates: when the clipboard holds a snapshot of link L and L is
\* live, paste at (r, c) leaves L live, inserts exactly one new link whose id is different
\* from every id already in the store and which sits at the pasted position of L's text, and
\* records copied_link_ids[new id] = L.id.
C21_CopyThenPasteDuplicatesLink ==
    \A i \in 2..Len(trail) :
        (RecordedOne(i) /\ trail[i].op = "paste") =>
            LET snaps == Post(i - 1).yank.links
                pos == LastEdit(Post(i)).before
                live == {n \in 1..Len(snaps) : PastesLive(i, snaps[n])}
            IN /\ Cardinality(NewIds(i)) = Cardinality(live)
               /\ \A n \in live :
                     /\ ~Post(i).links[snaps[n].id].deleted
                     /\ \E id \in NewIds(i) : CopyOf(i, id, snaps[n], pos)

(***************************************************************************)
(* Link ids                                                                *)
(***************************************************************************)
\* every id of the store of t is below next_link_id
IdsBelowNext(t) == \A id \in DOMAIN t.links : id < t.next_link_id /\ t.links[id].id = id

\* entry i keeps every link of the store, does not lower next_link_id, and gives the links it
\* creates the ids from the next_link_id it found on, one after the other
IdsIssuedInOrder(i) ==
    /\ DOMAIN Post(i - 1).links \subseteq DOMAIN Post(i).links
    /\ Post(i).next_link_id >= Post(i - 1).next_link_id
    /\ NewIds(i) = Post(i - 1).next_link_id..(Post(i).next_link_id - 1)

\* C22: link ids are unique and increasing: every link created by insert_link or by a
\* paste-copy receives the then-current next_link_id, which is strictly greater than every id
\* already in the store; next_link_id only increases and no id is ever reused, across any
\* sequence of edits, undo and redo.
C22_LinkIdsUniqueIncreasing ==
    \A i \in 1..Len(trail) :
        ~Halted(Post(i)) =>
            /\ IdsBelowNext(Post(i))
            /\ i >= 2 => IdsIssuedInOrder(i)

\* insert_link has added a link to a store that held one
C22_LinkCreatedBesideAnother ==
    /\ Len(trail) = 3
    /\ trail[3].op = "insert_char"
    /\ ~Halted(ta)
    /\ DOMAIN Post(2).links # {}
    /\ NewIds(3) # {}

(***************************************************************************)
(* Fatal states, no-ops and return values                                  *)
(***************************************************************************)
\* C23: every buffer and history operation is infallible: from any state reachable through
\* the public operations no insert, delete, paste, undo or redo reaches a fatal state (index
\* out of bounds, unsigned underflow, missing link).
C23_NoOperationPanics ==
    ~ta.panicked

\* the step left lines, cursor, every link, the clipboard and the history as they were
\* and returned false
NoOp ==
    /\ ~ta'.ret
    /\ ta'.lines = ta.lines
    /\ ta'.cursor = ta.cursor
    /\ ta'.links = ta.links
    /\ ta'.yank = ta.yank
    /\ ta'.history = ta.history

\* the step is insert_str of the empty string
TookEmptyInsertStr == Took("insert_str") /\ trail'[Len(trail')].params = << <<>> >>

\* C24: with no selection, delete_char at (0, 0) and insert_str("") each return false and
\* leave lines, cursor, every link (its deleted flag included), the clipboard and the
\* history unchanged.
C24_NoOpsChangeNothing ==
    [][ (NoSelection /\ ((Took("delete_char") /\ ta.cursor = <<0, 0>>) \/ TookEmptyInsertStr))
        => NoOp ]_vars

\* C24 for insert_str("") alone
C24_EmptyInsertStrChangesNothing ==
    [][ (NoSelection /\ TookEmptyInsertStr) => NoOp ]_vars

\* C24 for delete_char at (0, 0) when no live link begins at (0, 0)
C24_DeleteCharAtOriginOffLink ==
    [][ (NoSelection /\ Took("delete_char") /\ ta.cursor = <<0, 0>>
         /\ \A id \in LiveIds(ta) : ~(ta.links[id].row = 0 /\ ta.links[id].start_col = 0))
        => NoOp ]_vars

\* the operations of the model that return a bool
BoolOps ==
    {"insert_str", "delete_char", "delete_next_char", "delete_newline", "delete_str",
     "delete_line", "delete_line_by_head", "delete_line_by_end", "delete_word",
     "delete_next_word", "cut", "paste", "undo", "redo"}

\* the step is a bool-returning operation that came back
ReturnedBool == (\E name \in BoolOps : Took(name)) /\ ~Halted(ta')

\* the step changed the lines, the cursor, a link, the clipboard or the history
StateChanged ==
    \/ ta'.lines # ta.lines
    \/ ta'.cursor # ta.cursor
    \/ ta'.links # ta.links
    \/ ta'.yank # ta.yank
    \/ ta'.history # ta.history

\* C25: every bool-returning buffer operation returns true exactly when it changed the
\* buffer state and false exactly when it left it unchanged, also with an active selection
\* and on a buffer of one empty line.
C25_ReturnTellsChange ==
    [][ ReturnedBool => (ta'.ret <=> StateChanged) ]_vars

\* C25 in one direction: an operation that returns true changed the lines, the cursor, a
\* link, the clipboard or the history
C25_TrueMeansChanged ==
    [][ (ReturnedBool /\ ta'.ret) => StateChanged ]_vars

(***************************************************************************)
(* Character columns, the clipboard and the link store                     *)
(***************************************************************************)
\* the text that entry i inserts: the argument of insert_str, the clipboard of paste
InsertedText(i) ==
    IF trail[i].op = "insert_str" THEN trail[i].params ELSE Post(i - 1).yank.text

\* entry i is an insert_str or a paste of a single-line, non-empty string that recorded one
\* edit without a reflow
InsertsOneLine(i) ==
    /\ RecordedOne(i)
    /\ trail[i].op \in {"insert_str", "paste"}
    /\ Len(InsertedText(i)) = 1
    /\ InsertedText(i)[1] # <<>>

\* after entry i, which inserted n characters at pos, the cursor is n columns right of pos and
\* every link that was live at or after pos.col on that row is n columns further right
AdvancedBy(i, n, pos) ==
    /\ Post(i).cursor = <<pos.row, pos.col + n>>
    /\ \A id \in LiveIds(Post(i - 1)) :
          LET l == Post(i - 1).links[id]
              m == Post(i).links[id]
          IN (l.row = pos.row /\ l.start_col >= pos.col) =>
                /\ ~m.deleted
                /\ m.row = l.row
                /\ m.start_col = l.start_col + n
                /\ m.end_col = l.end_col + n

\* C26: columns are character-based: after insert_str or paste of a single-line string of n
\* characters at cursor (r, c) with no reflow, the cursor is (r, c + n) and the live links at
\* or after column c on row r are shifted by n, also when the string has multi-byte
\* characters.
C26_InsertCountsCharacters ==
    \A i \in 2..Len(trail) :
        InsertsOneLine(i) =>
            AdvancedBy(i, CharCount(InsertedText(i)[1]), LastEdit(Post(i)).before)

\* C26 for strings of single-byte characters
C26_InsertOfSingleByteCharacters ==
    \A i \in 2..Len(trail) :
        (InsertsOneLine(i) /\ StrLen(InsertedText(i)[1]) = CharCount(InsertedText(i)[1])) =>
            AdvancedBy(i, CharCount(InsertedText(i)[1]), LastEdit(Post(i)).before)

\* the position p, or the end of the buffer when p lies beyond it; columns count characters
InBuffer(t, p) ==
    IF p[1] >= Len(t.lines) THEN <<Len(t.lines) - 1, CharCount(t.lines[Len(t.lines)])>>
    ELSE <<p[1], Min(p[2], CharCount(t.lines[p[1] + 1]))>>

\* the earlier and the later of the selection's two ends
SelectionEnds(t) ==
    LET a == InBuffer(t, t.selection_start)
        b == InBuffer(t, t.cursor)
    IN IF a[1] < b[1] \/ (a[1] = b[1] /\ a[2] <= b[2]) THEN <<a, b>> ELSE <<b, a>>

\* the selected text, one sequence of characters per row
SelectedText(t) ==
    LET a == SelectionEnds(t)[1]
        b == SelectionEnds(t)[2]
    IN IF a[1] = b[1] THEN <<SubSeq(t.lines[a[1] + 1], a[2] + 1, b[2])>>
       ELSE <<Suffix(t.lines[a[1] + 1], a[2])>>
            \o SubSeq(t.lines, a[1] + 2, b[1])
            \o <<Prefix(t.lines[b[1] + 1], b[2])>>

\* the text area has a selection that is not empty
HasSelection(t) == t.selection_start # None /\ SelectedText(t) # << <<>> >>

\* C27: the clipboard is a single most-recent-wins buffer: after copy() or cut() with a
\* non-empty selection yank_text() is exactly the selected text, whatever it held before;
\* copy() leaves lines unchanged; copy() and cut() with no or an empty selection leave the
\* clipboard unchanged.
C27_ClipboardHoldsSelection ==
    [][ ((Took("copy") \/ Took("cut")) /\ ~Halted(ta')) =>
           /\ Took("copy") => ta'.lines = ta.lines
           /\ IF HasSelection(ta) THEN ta'.yank.text = SelectedText(ta)
                                  ELSE ta'.yank = ta.yank ]_vars

\* the selection's start, when there is one, and the cursor are positions of the buffer
SelectionInBuffer(t) ==
    /\ InBuffer(t, t.cursor) = t.cursor
    /\ t.selection_start # None => InBuffer(t, t.selection_start) = t.selection_start

\* C27 for a selection whose two ends are positions of the buffer
C27_ClipboardHoldsSelectionInBuffer ==
    [][ ((Took("copy") \/ Took("cut")) /\ ~Halted(ta') /\ SelectionInBuffer(ta)) =>
           /\ Took("copy") => ta'.lines = ta.lines
           /\ IF HasSelection(ta) THEN ta'.yank.text = SelectedText(ta)
                                  ELSE ta'.yank = ta.yank ]_vars

\* C27 read through yank_text() alone: with no or an empty selection the text of the
\* clipboard is unchanged
C27_YankTextHoldsSelection ==
    [][ ((Took("copy") \/ Took("cut")) /\ ~Halted(ta')) =>
           /\ Took("copy") => ta'.lines = ta.lines
           /\ IF HasSelection(ta) THEN ta'.yank.text = SelectedText(ta)
                                  ELSE ta'.yank.text = ta.yank.text ]_vars

\* position p is before position q, rows first
Before(p, q) == p[1] < q[1] \/ (p[1] = q[1] /\ p[2] < q[2])

\* entry i is a delete_piece or a selection delete that recorded one edit
DeletesPieceOrSelection(i) ==
    /\ RecordedOne(i)
    /\ trail[i].op \in {"delete_line_by_head", "delete_line_by_end", "delete_word",
                        "delete_next_word", "cut"}
    /\ LastEdit(Post(i)).kind.tag \in {"DeleteStr", "DeleteChunk"}

\* the link id was live before entry i and the range that entry i deleted, from the edit's
\* after position up to its before position, holds one of the link's columns
Overlapped(i, id) ==
    LET e == LastEdit(Post(i))
        l == Post(i - 1).links[id]
    IN /\ id \in LiveIds(Post(i - 1))
       /\ Before(<<l.row, l.start_col>>, <<e.before.row, e.before.col>>)
       /\ ~Before(<<l.row, l.end_col>>, <<e.after.row, e.after.col>>)

\* C28: after delete_piece or a selection delete whose range fully or partially overlaps a
\* link, the link is no longer in the links map: links.get(id) returns None.
C28_OverlappedLinkLeavesMap ==
    \A i \in 2..Len(trail) :
        DeletesPieceOrSelection(i) =>
            \A id \in DOMAIN Post(i - 1).links :
                Overlapped(i, id) => id \notin DOMAIN Post(i).links

\* C28 with the soft delete in place of the removal: the link stays in the map with its
\* deleted flag set
C28_OverlappedLinkSoftDeleted ==
    \A i \in 2..Len(trail) :
        DeletesPieceOrSelection(i) =>
            \A id \in DOMAIN Post(i - 1).links :
                Overlapped(i, id) => (id \in DOMAIN Post(i).links /\ Post(i).links[id].deleted)

\* C29: history and link store never diverge: no operation removes a link from the store, so
\* in every reachable state every link id carried by an edit of the history is a key of the
\* link store, and undo and redo never take the missing-link path.
C29_HistoryIdsInStore ==
    /\ \A k \in 1..Len(ta.history.edits) :
          ta.history.edits[k].kind.ids \subseteq DOMAIN ta.links
    /\ \A i \in 2..Len(trail) : DOMAIN Post(i - 1).links \subseteq DOMAIN Post(i).links

(***************************************************************************)
(* History::push step by step (SpecH)                                      *)
(***************************************************************************)
\* the history that push(e) leaves of the edits E with index i and capacity N, as the
\* claim words it: drop the oldest edit of a full history and take i1 = max(i - 1, 0), else
\* i1 = i; keep the first i1 of the remaining edits; append e; the index is i1 + 1
PushedOnto(E, i, N, e) ==
    LET rest == IF Len(E) = N THEN Tail(E) ELSE E
        i1 == IF Len(E) = N THEN (IF i - 1 > 0 THEN i - 1 ELSE 0) ELSE i
    IN [max_items |-> N, index |-> i1 + 1, edits |-> SubSeq(rest, 1, i1) \o <<e>>]

\* C30: push(e) with capacity N > 0 on the history (E, i) drops the oldest edit and takes
\* i1 = max(i - 1, 0) when len(E) = N, else i1 = i; keeps the first i1 remaining edits;
\* appends e and sets index = i1 + 1.
C30_PushStepByStep ==
    \A i \in 2..Len(trail) :
        IsPush(i) =>
            LET h == Post(i - 1).history
                e == Post(i).history.edits[Len(Post(i).history.edits)]
            IN Post(i).history = PushedOnto(h.edits, h.index, h.max_items, e)

\* the last operation pushed onto a full history that had a redo tail
C30_PushedOnFullWithRedoTail ==
    /\ Len(trail) >= 2
    /\ IsPush(Len(trail))
    /\ Len(Post(Len(trail) - 1).history.edits) = ta.history.max_items
    /\ Post(Len(trail) - 1).history.index < Len(Post(Len(trail) - 1).history.edits)
    /\ Post(Len(trail) - 1).history.index > 0

(***************************************************************************)
(* The link shifts one by one                                              *)
(***************************************************************************)
\* link m is link l moved by dr rows and dc columns, flags aside
Shifted(l, m, dr, dc) ==
    /\ m.row = l.row + dr
    /\ m.start_col = l.start_col + dc
    /\ m.end_col = l.end_col + dc

\* entry i is an insert_newline that recorded one edit
SplitsLine(i) == RecordedOne(i) /\ trail[i].op = "insert_newline"

\* C31: when insert_newline splits row r at column c, every link with row >= r has its row
\* increased by one, a link on row r with start_col >= c additionally has start_col and
\* end_col reduced by c, and links on rows above r are unchanged.
C31_NewlineSplitShift ==
    \A i \in 2..Len(trail) :
        SplitsLine(i) =>
            LET pos == LastEdit(Post(i)).before IN
            \A id \in DOMAIN Post(i - 1).links :
                LET l == Post(i - 1).links[id]
                    m == Post(i).links[id]
                IN IF l.row < pos.row THEN Shifted(l, m, 0, 0)
                   ELSE IF l.row = pos.row /\ l.start_col >= pos.col THEN Shifted(l, m, 1, 0 - pos.col)
                   ELSE Shifted(l, m, 1, 0)

\* C31 with the links of row r that begin before column c left where they are
C31_NewlineSplitShiftBehindColumn ==
    \A i \in 2..Len(trail) :
        SplitsLine(i) =>
            LET pos == LastEdit(Post(i)).before IN
            \A id \in DOMAIN Post(i - 1).links :
                LET l == Post(i - 1).links[id]
                    m == Post(i).links[id]
                IN IF l.row < pos.row \/ (l.row = pos.row /\ l.start_col < pos.col)
                   THEN Shifted(l, m, 0, 0)
                   ELSE IF l.row = pos.row THEN Shifted(l, m, 1, 0 - pos.col)
                   ELSE Shifted(l, m, 1, 0)

\* entry i is a delete_newline that joined two lines and recorded that as its one edit
JoinsLines(i) ==
    /\ RecordedOne(i)
    /\ trail[i].op = "delete_newline"
    /\ LastEdit(Post(i)).kind.tag = "DeleteNewline"

\* after entry i, which joined row r onto a row r - 1 of n columns, the live links of row r
\* are on row r - 1 and n columns further right, the live links below row r are one row up
\* and the live links above row r are where they were
JoinedBy(i, r, n) ==
    \A id \in LiveIds(Post(i - 1)) :
        LET l == Post(i - 1).links[id]
            m == Post(i).links[id]
        IN IF l.row = r THEN Shifted(l, m, 0 - 1, n)
           ELSE IF l.row > r THEN Shifted(l, m, 0 - 1, 0)
           ELSE Shifted(l, m, 0, 0)

\* C32: when delete_newline at row r >= 1 joins row r onto row r - 1 (the joined line within
\* the maximum width), every live link on row r moves to row r - 1 with start_col and end_col
\* increased by the number of characters row r - 1 had, links below row r move up one row,
\* and links on rows <= r - 1 are unchanged.
C32_LineJoinShift ==
    \A i \in 2..Len(trail) :
        JoinsLines(i) =>
            LET r == LastEdit(Post(i)).before.row
            IN JoinedBy(i, r, CharCount(Post(i - 1).lines[r]))

\* C32 when row r - 1 holds single-byte characters only
C32_LineJoinShiftSingleByte ==
    \A i \in 2..Len(trail) :
        (JoinsLines(i) /\ LET r == LastEdit(Post(i)).before.row
                          IN StrLen(Post(i - 1).lines[r]) = CharCount(Post(i - 1).lines[r])) =>
            LET r == LastEdit(Post(i)).before.row
            IN JoinedBy(i, r, CharCount(Post(i - 1).lines[r]))

\* entry i is a delete of a selection that spans rows, recorded as its one edit: the edit's
\* after position is the selection's start (sr, sc), its before position the end (er, ec)
DeletesRows(i) ==
    /\ RecordedOne(i)
    /\ trail[i].op \in {"cut", "delete_char"}
    /\ LastEdit(Post(i)).kind.tag \in {"DeleteStr", "DeleteChunk"}
    /\ LastEdit(Post(i)).after.row < LastEdit(Post(i)).before.row

AfterInsertClaimed(l, r, c, r2, c2) ==
    IF l.edited THEN [l EXCEPT !.edited = FALSE]
    ELSE IF l.row = r /\ l.start_col >= c
    THEN [l EXCEPT !.row = l.row + (r2 - r),
                   !.start_col = l.start_col + (c2 - c),
                   !.end_col = l.end_col + (c2 - c)]
    ELSE IF l.row > r THEN [l EXCEPT !.row = l.row + (r2 - r)]
    ELSE l

\* C34: the after-insert shift for an insert spanning (r, c) to (r2, c2): a non-deleted link
\* that is edited has the flag cleared and keeps its position; otherwise a link on row r with
\* start_col >= c gets row + (r2 - r) and both columns + (c2 - c); otherwise a link strictly
\* below r gets row + (r2 - r) only; every other link is unchanged.
C34_AfterInsertShift ==
    (ed.phase = "shifted" /\ ed.fn = "after_insert") =>
        \A id \in DOMAIN ed.links0 :
            ed.links[id] = IF ed.links0[id].deleted THEN ed.links0[id]
                           ELSE AfterInsertClaimed(ed.links0[id], ed.start[1], ed.start[2],
                                                   ed.end[1], ed.end[2])

\* the shift has run over an edited link and has moved a plain link of the insert's row to
\* the row below and to the left
C34_ShiftedEditedAndPlainLinks ==
    /\ ed.phase = "shifted"
    /\ ed.fn = "after_insert"
    /\ ed.end[1] > ed.start[1]
    /\ ed.end[2] < ed.start[2]
    /\ ed.links0[0].edited /\ ~ed.links0[0].deleted
    /\ ~ed.links0[1].edited /\ ~ed.links0[1].deleted
    /\ ed.links0[1].row = ed.start[1] /\ ed.links0[1].start_col >= ed.start[2]
    /\ ed.links[1].row = ed.links0[1].row + 1
    /\ ed.links[1].start_col < ed.links0[1].start_col

\* the link l is in the range from start to end by the inclusion test of the claim
InRangeClaimed(l, start, end) ==
    /\ l.row >= start[1]
    /\ l.row <= end[1]
    /\ (l.row # start[1] \/ l.end_col >= start[2])
    /\ (l.row # end[1] \/ l.start_col <= end[2])

\* C35: delete_links_in_range(start, end) soft-deletes and returns a snapshot for exactly the
\* non-deleted links with row in [start.row, end.row] and (row != start.row or end_col >=
\* start.col) and (row != end.row or start_col <= end.col); after it returns every returned
\* id is deleted and every other link's deleted flag is unchanged.
C35_RangeExtraction ==
    (ed.phase = "shifted" /\ ed.fn = "delete_links_in_range" /\ ~ed.panicked) =>
        /\ ed.returned = {id \in DOMAIN ed.links0 :
                            ~ed.links0[id].deleted /\ InRangeClaimed(ed.links0[id], ed.start, ed.end)}
        /\ \A id \in DOMAIN ed.links0 :
              ed.links[id].deleted = (id \in ed.returned \/ ed.links0[id].deleted)

\* C35 on a link store without soft-deleted links
C35_RangeExtractionOfLiveLinks ==
    (ed.phase = "shifted" /\ ed.fn = "delete_links_in_range" /\ ~ed.panicked
     /\ \A id \in DOMAIN ed.links0 : ~ed.links0[id].deleted) =>
        /\ ed.returned = {id \in DOMAIN ed.links0 : InRangeClaimed(ed.links0[id], ed.start, ed.end)}
        /\ \A id \in DOMAIN ed.links0 : ed.links[id].deleted = (id \in ed.returned)

\* the live link l begins in front of start and ends at start or behind it, on the row of start
Straddles(l, start) ==
    ~l.deleted /\ l.row = start[1] /\ l.start_col < start[2] /\ start[2] <= l.end_col

\* C36: a live link that is only partially inside a deleted range, in particular one on the
\* start row of the range with start_col < start.col <= end_col, is extracted and soft-deleted
\* as a whole: the extraction completes normally, without an unsigned underflow in the
\* start-relative columns, and produces a snapshot of the link.
C36_PartialLinkExtracted ==
    (ed.phase = "shifted" /\ ed.fn = "delete_links_in_range") =>
        \A id \in DOMAIN ed.links0 :
            Straddles(ed.links0[id], ed.start) =>
                ~ed.panicked /\ id \in ed.returned /\ ed.links[id].deleted

\* C36 the other way round: the extraction of a range whose start row holds a live link that
\* begins in front of the range and reaches into it underflows at the start-relative column
\* (a panic where overflow is checked) and extracts nothing
C36_PartialLinkUnderflows ==
    (ed.phase = "shifted" /\ ed.fn = "delete_links_in_range"
     /\ \E id \in DOMAIN ed.links0 : Straddles(ed.links0[id], ed.start)) =>
        ed.panicked /\ ed.returned = {} /\ ed.links = ed.links0

\* a live link that overlaps the range at its end only is extracted whole
C36_LinkOverEndExtracted ==
    (ed.phase = "shifted" /\ ed.fn = "delete_links_in_range" /\ ~ed.panicked) =>
        \A id \in DOMAIN ed.links0 :
            LET l == ed.links0[id]
            IN (~l.deleted /\ l.row = ed.end[1] /\ l.start_col <= ed.end[2]
                /\ ed.end[2] < l.end_col
                /\ (l.row > ed.start[1] \/ l.start_col >= ed.start[2])) =>
                   id \in ed.returned /\ ed.links[id].deleted

\* Claims about what copy() stores

\* the step is a copy() of a selection that ended normally
CopiesSelection == Took("copy") /\ selection_range(ta) # None /\ ~ta'.panicked

\* C37: copy() of a selection stores snapshots of every link fully or partially inside the
\* selection, which is exactly the set of links that cut() of the same selection from the
\* same state would store.
C37_CopyStoresLinksOfCut ==
    [][CopiesSelection =>
          \A o \in Orders(ta) :
              LET c == cut(ta, o)
              IN ~c.panicked /\ SnapshotIds(ta'.yank.links) = SnapshotIds(c.yank.links)]_vars

\* what copy() stores is among what a cut() that ends normally stores
C37_CopyStoresSomeLinksOfCut ==
    [][CopiesSelection =>
          \A o \in Orders(ta) :
              LET c == cut(ta, o)
              IN ~c.panicked => SnapshotIds(ta'.yank.links) \subseteq SnapshotIds(c.yank.links)]_vars

\* n moved by d, not below 0
MovedBy(n, d) == IF n + d < 0 THEN 0 ELSE n + d

\* the link l after the column shift of the after-delete shift from start to end
ColumnShifted(l, start, end) ==
    IF l.row = start[1] /\ l.start_col >= start[2]
    THEN [l EXCEPT !.start_col = MovedBy(l.start_col, end[2] - start[2]),
                   !.end_col = MovedBy(l.end_col, end[2] - start[2])]
    ELSE l

\* the link m is the link l pinned: its columns reduced by d, its row not shifted
Pinned(l, m, d) ==
    m.row = l.row /\ m.start_col = l.start_col - d /\ m.end_col = l.end_col - d

\* the link m is the link l1 with the generic row delta of the shift from start to end
RowShifted(l1, m, start, end) ==
    m.row = MovedBy(l1.row, end[1] - start[1])
    /\ m.start_col = l1.start_col /\ m.end_col = l1.end_col

\* the shift is an after-delete shift that ended normally
AfterDeleteShifted == ed.phase = "shifted" /\ ed.fn = "after_delete" /\ ~ed.panicked

\* C38 as stated: in the after-delete shift a live link at or below the start row of the edit
\* is pinned (columns reduced by the amount of text moved to the previous line, row not
\* shifted) exactly when its end column exceeds the maximum row width; a link whose end column
\* is less than or equal to the maximum row width gets the generic row delta.
C38_PinnedBeyondMaxWidth ==
    AfterDeleteShifted =>
        \A id \in DOMAIN ed.links0 :
            LET l == ed.links0[id]
                l1 == ColumnShifted(l, ed.start, ed.end)
            IN (~l.deleted /\ l.row >= ed.start[1]) =>
                  IF l1.end_col > ed.max_col
                  THEN Pinned(l, ed.links[id], ed.shifted_to_prevline)
                  ELSE RowShifted(l1, ed.links[id], ed.start, ed.end)

\* C38: in the after-delete shift a live link at or below the start row of the edit is pinned
\* (columns reduced by the amount of text moved to the previous line, row not shifted) exactly
\* when its end column after the column shift is at least the maximum row width; a link whose
\* end column is less than the maximum row width gets the generic row delta.
C38_PinnedFromMaxWidth ==
    AfterDeleteShifted =>
        \A id \in DOMAIN ed.links0 :
            LET l == ed.links0[id]
                l1 == ColumnShifted(l, ed.start, ed.end)
            IN (~l.deleted /\ l.row >= ed.start[1]) =>
                  IF l1.end_col >= ed.max_col
                  THEN Pinned(l, ed.links[id], ed.shifted_to_prevline)
                  ELSE RowShifted(l1, ed.links[id], ed.start, ed.end)

\* an after-delete shift to a row above has pinned one live link whose end column is max_col
\* and has moved another, whose end column is less, up by the row delta
C38_PinnedAtMaxWidthAndMovedBelow ==
    /\ AfterDeleteShifted
    /\ ed.end[1] < ed.start[1]
    /\ ed.shifted_to_prevline = 1
    /\ \E id \in DOMAIN ed.links0 :
          /\ ~ed.links0[id].deleted
          /\ ed.links0[id].row >= ed.start[1]
          /\ ColumnShifted(ed.links0[id], ed.start, ed.end).end_col = ed.max_col
          /\ ed.links[id].row = ed.links0[id].row
          /\ ed.links[id].end_col = ed.max_col - 1
    /\ \E id \in DOMAIN ed.links0 :
          /\ ~ed.links0[id].deleted
          /\ ed.links0[id].row >= ed.start[1]
          /\ ColumnShifted(ed.links0[id], ed.start, ed.end).end_col < ed.max_col
          /\ ed.links[id].row < ed.links0[id].row

====
